---- MODULE Spec2Model ----
(***************************************************************************)
(* HotAir: the Vulkan backend lifecycle (VulkanGfxBase) and its Wayland    *)
(* front end (WaylandGfx).                                                 *)
(*                                                                         *)
(* The C++ functions are operators over a machine record m that holds the  *)
(* object's fields (m.vk, m.wl), the persisted configuration (m.config),   *)
(* the driver's bookkeeping (m.drv), the trace of the running handler      *)
(* (m.calls) and the exception in flight (m.thrown).  A function whose     *)
(* machine already carries an exception does nothing: that is how a throw  *)
(* skips the rest of its callers.  An action is one whole handler.         *)
(***************************************************************************)
EXTENDS Integers, Sequences, FiniteSets, TLC

VARIABLES vk, wl, config, drv, calls, pc, last, resizes, mm

vars == <<vk, wl, config, drv, calls, pc, last, resizes, mm>>

(* ------------------------------ bounds --------------------------------- *)

\* the driver hands out between 1 and MaxImages presentable images
MaxImages == 2

\* accepted resizes (geometry changed) the model follows per run
MaxResizes == 1

\* queue families the selected accelerator may report
MaxFamilies == 2

(* ----------------------------- constants -------------------------------- *)

\* Config's defaults for /display/width and /display/height
DefaultWidth == 800

DefaultHeight == 600

Null == 0

\* std::nullopt of an optional<uint32_t>
NoIndex == -1

NoExc == "none"

Roles == {"graphics", "present", "transfer", "compute"}

Dims == {DefaultWidth, DefaultHeight}

\* PlatformGfx::Geometry
Geometry == [width : Dims, height : Dims]

\* Geometry::operator==
GeometryEq(a, b) == a.width = b.width /\ a.height = b.height

(* ------------------------- the machine's parts -------------------------- *)

QueueFamilyIndices0 ==
  [graphicsFamily |-> NoIndex, presentFamily |-> NoIndex,
   transferFamily |-> NoIndex, computeFamily |-> NoIndex]

\* QueueFamilyIndices::isComplete
isComplete(q) ==
  /\ q.graphicsFamily # NoIndex
  /\ q.presentFamily # NoIndex
  /\ q.transferFamily # NoIndex
  /\ q.computeFamily # NoIndex

\* the fields of a freshly constructed VulkanGfxBase
VulkanGfxBase0 ==
  [instance |-> Null, physicalDevice |-> Null, device |-> Null,
   queue |-> Null, transferQueue |-> Null, presentQueue |-> Null,
   computeQueue |-> Null,
   queueFamilyIndices |-> QueueFamilyIndices0,
   surface |-> Null,
   swapchain |-> Null, format |-> "indeterminate",
   extent |-> [width |-> 0, height |-> 0],
   images |-> <<>>, imageViews |-> <<>>,
   renderPass |-> Null, pipelineLayout |-> Null, pipeline |-> Null,
   framebuffers |-> <<>>,
   commandPools |-> [graphics |-> Null, transfer |-> Null,
                     present |-> Null, compute |-> Null],
   commandBuffers |-> [graphics |-> <<>>, transfer |-> <<>>,
                       present |-> <<>>, compute |-> <<>>],
   imageAvailableSemaphore |-> Null, renderFinishedSemaphore |-> Null,
   inFlightFence |-> Null]

\* the fields of a freshly constructed WaylandGfx (display, window, surface,
\* initialized) together with its Window's geometry and flags
WaylandGfx0 ==
  [display |-> FALSE, window |-> FALSE,
   geometry |-> [width |-> 0, height |-> 0],
   configured |-> FALSE, closed |-> FALSE,
   surface |-> Null, initialized |-> FALSE, armed |-> FALSE]

\* the driver: the next fresh object, the objects alive, the objects
\* released, the fences and semaphores signaled, those a submitted batch
\* will signal, and how often VulkanGfxBase::init has been entered
Driver0 ==
  [next |-> 1, live |-> {}, released |-> {}, signaled |-> {}, pending |-> {},
   inits |-> 0]

Machine == [vk |-> vk, wl |-> wl, config |-> config, drv |-> drv,
            calls |-> calls, thrown |-> NoExc]

(* ----------------------------- the trace -------------------------------- *)

\* one native call issued by function fn on object h
Call(m, fn, name, h) ==
  [m EXCEPT !.calls = Append(@, [fn |-> fn, call |-> name, h |-> h])]

\* entry to and exit from init/destroy/redraw, with the base's fields, the
\* initialized flag and the signaled and pending objects then
Mark(m, fn, what) ==
  [m EXCEPT !.calls = Append(@, [fn |-> fn, call |-> what, h |-> Null,
                                 snap |-> m.vk, thrown |-> m.thrown,
                                 initialized |-> m.wl.initialized,
                                 signaled |-> m.drv.signaled,
                                 pending |-> m.drv.pending])]

Throw(m, what) == [m EXCEPT !.thrown = what]

\* a native create call: a fresh object comes to life
Create(m, fn, name) ==
  [Call(m, fn, name, m.drv.next) EXCEPT
     !.drv.next = @ + 1, !.drv.live = @ \cup {m.drv.next}]

\* a native create call that hands out n objects at once
CreateN(m, fn, name, n) ==
  [Call(m, fn, name, m.drv.next) EXCEPT
     !.drv.next = @ + n,
     !.drv.live = @ \cup (m.drv.next .. (m.drv.next + n - 1))]

Fresh(m, n) == [i \in 1..n |-> m.drv.next + i - 1]

\* a native destroy/free call on object h
Release(m, fn, name, h) ==
  [Call(m, fn, name, h) EXCEPT
     !.drv.live = @ \ {h}, !.drv.released = @ \cup ({h} \ {Null}),
     !.drv.signaled = @ \ {h}, !.drv.pending = @ \ {h}]

RECURSIVE ReleaseAll(_, _, _, _)
ReleaseAll(m, fn, name, hs) ==
  IF hs = <<>> THEN m
  ELSE ReleaseAll(Release(m, fn, name, Head(hs)), fn, name, Tail(hs))

Range(s) == {s[i] : i \in 1..Len(s)}

\* one native call that frees the objects hs together (freeCommandBuffers)
ReleaseSet(m, fn, name, pool, hs) ==
  [Call(m, fn, name, pool) EXCEPT
     !.drv.live = @ \ Range(hs), !.drv.released = @ \cup Range(hs)]

\* a member call on the device handle: on a null device it faults
OnDevice(m, r) == IF m.vk.device = Null THEN Throw(m, "fault") ELSE r

(* ------------------------ VulkanGfxBase::destroy ------------------------ *)

\* waitIdle without the test of the device handle
waitIdleUnguarded(m) ==
  IF m.thrown # NoExc THEN m
  ELSE OnDevice(Call(m, "destroy", "waitIdle", m.vk.device),
                [Call(m, "destroy", "waitIdle", m.vk.device) EXCEPT
                   !.drv.signaled = @ \cup m.drv.pending, !.drv.pending = {}])

\* device.waitIdle(): every submitted batch has completed
waitIdle(m) ==
  IF m.thrown # NoExc \/ m.vk.device = Null THEN m
  ELSE [Call(m, "destroy", "waitIdle", m.vk.device) EXCEPT
          !.drv.signaled = @ \cup m.drv.pending, !.drv.pending = {}]

destroyInFlightFence(m) ==
  IF m.thrown # NoExc \/ m.vk.inFlightFence = Null THEN m
  ELSE OnDevice(m, [Release(m, "destroy", "destroyFence", m.vk.inFlightFence)
                      EXCEPT !.vk.inFlightFence = Null])

destroyRenderFinishedSemaphore(m) ==
  IF m.thrown # NoExc \/ m.vk.renderFinishedSemaphore = Null THEN m
  ELSE OnDevice(m, [Release(m, "destroy", "destroySemaphore.renderFinished",
                            m.vk.renderFinishedSemaphore)
                      EXCEPT !.vk.renderFinishedSemaphore = Null])

destroyImageAvailableSemaphore(m) ==
  IF m.thrown # NoExc \/ m.vk.imageAvailableSemaphore = Null THEN m
  ELSE OnDevice(m, [Release(m, "destroy", "destroySemaphore.imageAvailable",
                            m.vk.imageAvailableSemaphore)
                      EXCEPT !.vk.imageAvailableSemaphore = Null])

\* the four command-buffer sets, each freed against its own pool
freeCommandBuffers(m, role) ==
  IF m.thrown # NoExc \/ m.vk.commandBuffers[role] = <<>> THEN m
  ELSE OnDevice(m, [ReleaseSet(m, "destroy", "freeCommandBuffers." \o role,
                               m.vk.commandPools[role],
                               m.vk.commandBuffers[role])
                      EXCEPT !.vk.commandBuffers[role] = <<>>])

destroyCommandPool(m, role) ==
  IF m.thrown # NoExc \/ m.vk.commandPools[role] = Null THEN m
  ELSE OnDevice(m, [Release(m, "destroy", "destroyCommandPool." \o role,
                            m.vk.commandPools[role])
                      EXCEPT !.vk.commandPools[role] = Null])

destroyPipeline(m) ==
  IF m.thrown # NoExc \/ m.vk.pipeline = Null THEN m
  ELSE OnDevice(m, [Release(m, "destroy", "destroyPipeline", m.vk.pipeline)
                      EXCEPT !.vk.pipeline = Null])

destroyPipelineLayout(m) ==
  IF m.thrown # NoExc \/ m.vk.pipelineLayout = Null THEN m
  ELSE OnDevice(m, [Release(m, "destroy", "destroyPipelineLayout",
                            m.vk.pipelineLayout)
                      EXCEPT !.vk.pipelineLayout = Null])

destroyFramebuffers(m) ==
  IF m.thrown # NoExc \/ m.vk.framebuffers = <<>> THEN m
  ELSE OnDevice(m, [ReleaseAll(m, "destroy", "destroyFramebuffer",
                               m.vk.framebuffers)
                      EXCEPT !.vk.framebuffers = <<>>])

\* destroyRenderPass without the assignment of nullptr after the release
destroyRenderPassKeepsHandle(m) ==
  IF m.thrown # NoExc \/ m.vk.renderPass = Null THEN m
  ELSE OnDevice(m, Release(m, "destroy", "destroyRenderPass", m.vk.renderPass))

destroyRenderPass(m) ==
  IF m.thrown # NoExc \/ m.vk.renderPass = Null THEN m
  ELSE OnDevice(m, [Release(m, "destroy", "destroyRenderPass", m.vk.renderPass)
                      EXCEPT !.vk.renderPass = Null])

destroyImageViews(m) ==
  IF m.thrown # NoExc \/ m.vk.imageViews = <<>> THEN m
  ELSE OnDevice(m, [ReleaseAll(m, "destroy", "destroyImageView",
                               m.vk.imageViews)
                      EXCEPT !.vk.imageViews = <<>>])

\* destroySwapchain without the assignment of nullptr after the release
destroySwapchainKeepsHandle(m) ==
  IF m.thrown # NoExc \/ m.vk.swapchain = Null THEN m
  ELSE OnDevice(m, Release(m, "destroy", "destroySwapchainKHR", m.vk.swapchain))

destroySwapchain(m) ==
  IF m.thrown # NoExc \/ m.vk.swapchain = Null THEN m
  ELSE OnDevice(m, [Release(m, "destroy", "destroySwapchainKHR", m.vk.swapchain)
                      EXCEPT !.vk.swapchain = Null])

destroySyncObjects(m) ==
  destroyImageAvailableSemaphore(
    destroyRenderFinishedSemaphore(destroyInFlightFence(m)))

destroyCommandBuffers(m) ==
  freeCommandBuffers(freeCommandBuffers(freeCommandBuffers(
    freeCommandBuffers(m, "graphics"), "transfer"), "present"), "compute")

destroyCommandPools(m) ==
  destroyCommandPool(destroyCommandPool(destroyCommandPool(
    destroyCommandPool(m, "compute"), "present"), "transfer"), "graphics")

destroyChain(m) ==
  destroySwapchain(destroyImageViews(destroyRenderPass(destroyFramebuffers(
    destroyPipelineLayout(destroyPipeline(m))))))

\* destroy with the pools destroyed ahead of the command buffers
destroyPoolsFirst(m) ==
  IF m.thrown # NoExc THEN m
  ELSE Mark(destroyChain(destroyCommandBuffers(destroyCommandPools(
         destroySyncObjects(waitIdle(Mark(m, "destroy", "enter")))))),
         "destroy", "return")

destroy(m) ==
  IF m.thrown # NoExc THEN m
  ELSE Mark(destroyChain(destroyCommandPools(destroyCommandBuffers(
         destroySyncObjects(waitIdle(Mark(m, "destroy", "enter")))))),
         "destroy", "return")

(* ------------------------- VulkanGfxBase::init -------------------------- *)

\* the native call named in.fail hands back a null handle (an empty list)
Fails(in, name) == in.fail = name

\* the throw statement after a failed native call
NativeOrThrow(m, in, name, ok) ==
  IF Fails(in, name) THEN Throw(Call(m, "init", name, Null), name) ELSE ok

createInstance(m, in) ==
  IF m.thrown # NoExc \/ m.vk.instance # Null THEN m
  ELSE NativeOrThrow(m, in, "createInstance",
         [Create(m, "init", "createInstance") EXCEPT
            !.vk.instance = m.drv.next])

\* the predicate without the integrated GPUs
isSuitableDiscreteOnly(d) == d.deviceType = "discrete" /\ d.geometryShader

\* the predicate of pickPhysicalDevice's find_if
isSuitable(d) ==
  (d.deviceType = "discrete" \/ d.deviceType = "integrated") /\ d.geometryShader

\* std::ranges::find_if: the first position whose element satisfies P,
\* Len + 1 for end()
RECURSIVE FindSuitable(_, _)
FindSuitable(devs, i) ==
  IF i > Len(devs) THEN i
  ELSE IF isSuitable(devs[i]) THEN i ELSE FindSuitable(devs, i + 1)

pickPhysicalDevice(m, in) ==
  IF m.thrown # NoExc \/ m.vk.physicalDevice # Null THEN m
  ELSE LET m1 == Call(m, "init", "enumeratePhysicalDevices", m.vk.instance)
           at == FindSuitable(in.devs, 1)
       IN IF in.devs = <<>> THEN Throw(m1, "failed to find GPUs")
          ELSE IF at > Len(in.devs) THEN Throw(m1, "failed to find a suitable GPU")
          ELSE [m1 EXCEPT !.vk.physicalDevice = at]

\* the address of WaylandGfx::surface, which the callback of
\* WaylandGfx::init returns
AddrOfSurface == 1

\* the lambda WaylandGfx::init passes as create_surface_fn
createWaylandSurface(m, in) ==
  IF Fails(in, "vkCreateWaylandSurfaceKHR")
  THEN Throw(Call(m, "init", "vkCreateWaylandSurfaceKHR", Null),
             "vkCreateWaylandSurfaceKHR")
  ELSE [Create(m, "init", "vkCreateWaylandSurfaceKHR") EXCEPT
          !.wl.surface = m.drv.next]

\* init's surface step without the test for a bound surface
acquireSurfaceAlways(m, in, cb) ==
  IF m.thrown # NoExc THEN m
  ELSE IF ~cb THEN Throw(m, "create_surface fn must be a valid cb")
  ELSE LET m1 == createWaylandSurface(Call(m, "init", "create_surface_fn", Null), in)
       IN IF m1.thrown # NoExc THEN m1
          ELSE [m1 EXCEPT !.vk.surface = AddrOfSurface]

\* init's surface step; cb says whether a callback was passed, and
\* in.cbReturns whether it hands back the address of a surface (as the
\* lambda of WaylandGfx::init does) or a null pointer, which init stores
\* untested
acquireSurface(m, in, cb) ==
  IF m.thrown # NoExc \/ m.vk.surface # Null THEN m
  ELSE IF ~cb THEN Throw(m, "create_surface fn must be a valid cb")
  ELSE IF in.cbReturns = "null"
  THEN [Call(m, "init", "create_surface_fn", Null) EXCEPT !.vk.surface = Null]
  ELSE LET m1 == createWaylandSurface(Call(m, "init", "create_surface_fn", Null), in)
       IN IF m1.thrown # NoExc THEN m1
          ELSE [m1 EXCEPT !.vk.surface = AddrOfSurface]

\* the queue-family scan of createDevice: family i (0-based) is
\* families[i + 1], a set of roles; "present" stands for surface support
RECURSIVE scanFamilies(_, _, _)
scanFamilies(q, families, i) ==
  IF i >= Len(families) THEN q
  ELSE LET f == families[i + 1]
           q1 == [q EXCEPT
                    !.graphicsFamily = IF "graphics" \in f THEN i ELSE @,
                    !.presentFamily = IF "present" \in f THEN i ELSE @,
                    !.transferFamily = IF "transfer" \in f THEN i ELSE @,
                    !.computeFamily = IF "compute" \in f THEN i ELSE @]
       IN IF isComplete(q1) THEN q1 ELSE scanFamilies(q1, families, i + 1)

\* a request list with one entry per role that is set, aliased or not
queueCreateInfosPerRole(q) ==
  LET One(x) == IF x # NoIndex THEN <<x>> ELSE <<>>
  IN One(q.graphicsFamily) \o One(q.presentFamily)
       \o One(q.transferFamily) \o One(q.computeFamily)

\* the family indices of the vk::DeviceQueueCreateInfo list
queueCreateInfos(q) ==
  LET g == IF q.graphicsFamily # NoIndex THEN <<q.graphicsFamily>> ELSE <<>>
      p == IF q.presentFamily # NoIndex /\ q.presentFamily # q.graphicsFamily
           THEN <<q.presentFamily>> ELSE <<>>
      t == IF /\ q.transferFamily # NoIndex
              /\ q.transferFamily # q.graphicsFamily
              /\ q.transferFamily # q.presentFamily
           THEN <<q.transferFamily>> ELSE <<>>
      c == IF /\ q.computeFamily # NoIndex
              /\ q.computeFamily # q.graphicsFamily
              /\ q.computeFamily # q.presentFamily
              /\ q.computeFamily # q.transferFamily
           THEN <<q.computeFamily>> ELSE <<>>
  IN g \o p \o t \o c

\* *surface as the argument of the native call name.  Through a null
\* pointer this is undefined: the process faults (in.nullDeref = "fault"),
\* or the call is issued on whatever was read (in.nullDeref = "garbage")
derefSurface(m, in, name) ==
  IF m.thrown # NoExc \/ m.vk.surface # Null THEN m
  ELSE IF in.nullDeref = "fault" THEN Throw(m, "fault")
  ELSE Call(m, "init", name, Null)

\* device.getQueue(family.value(), 0) and the check after it; the queue of
\* family f of device d is the object d + 1 + f
getQueue(m, in, field, family) ==
  IF m.thrown # NoExc THEN m
  ELSE IF family = NoIndex THEN Throw(m, "bad_optional_access")
  ELSE IF Fails(in, "getQueue." \o field)
       THEN Throw(Call(m, "init", "getQueue." \o field, Null), "getQueue." \o field)
  ELSE [Call(m, "init", "getQueue." \o field, m.vk.device + 1 + family)
          EXCEPT !.vk[field] = m.vk.device + 1 + family]

\* physicalDevice.createDevice and the check after it
createLogicalDevice(m, in) ==
  IF Fails(in, "createDevice")
  THEN Throw(Call(m, "init", "createDevice", Null), "createDevice")
  ELSE [m EXCEPT
          !.calls = Append(@, [fn |-> "init", call |-> "createDevice",
                               h |-> m.drv.next,
                               arg |-> queueCreateInfos(m.vk.queueFamilyIndices)]),
          !.vk.device = m.drv.next,
          !.drv.live = @ \cup {m.drv.next},
          !.drv.next = @ + 1 + Len(in.families)]

\* createDevice without its early return for an existing device
createDeviceAgain(m, in) ==
  IF m.thrown # NoExc THEN m
  ELSE LET q == scanFamilies(m.vk.queueFamilyIndices, in.families, 0)
           m1 == createLogicalDevice([m EXCEPT !.vk.queueFamilyIndices = q], in)
           m2 == getQueue(m1, in, "queue", q.graphicsFamily)
           m3 == getQueue(m2, in, "transferQueue", q.transferFamily)
           m4 == getQueue(m3, in, "presentQueue", q.presentFamily)
       IN getQueue(m4, in, "computeQueue", q.computeFamily)

createDevice(m, in) ==
  IF m.thrown # NoExc \/ m.vk.device # Null THEN m
  ELSE LET q == scanFamilies(m.vk.queueFamilyIndices, in.families, 0)
           m0 == IF in.families = <<>> THEN m
                 ELSE derefSurface(m, in, "getSurfaceSupportKHR")
           m1 == createLogicalDevice([m0 EXCEPT !.vk.queueFamilyIndices = q], in)
           m2 == getQueue(m1, in, "queue", q.graphicsFamily)
           m3 == getQueue(m2, in, "transferQueue", q.transferFamily)
           m4 == getQueue(m3, in, "presentQueue", q.presentFamily)
       IN IF m0.thrown # NoExc THEN m0
          ELSE getQueue(m4, in, "computeQueue", q.computeFamily)

(* -------------------- VulkanGfxBase::createSwapchain -------------------- *)

\* std::numeric_limits<uint32_t>::max(), the "undefined" extent; the model's
\* integers end at 2^31 - 1, which stands for it (no extent reaches it)
UndefinedExtent == 2147483647

\* the image count asked for when maxImageCount is 0 (no upper limit)
UnboundedImageCount == 3

\* std::clamp(v, lo, hi)
clamp(v, lo, hi) == IF v < lo THEN lo ELSE IF hi < v THEN hi ELSE v

\* the extent lambda without its clamping of the window geometry
chainExtentUnclamped(caps, geo) ==
  IF caps.currentExtent.width # UndefinedExtent THEN caps.currentExtent
  ELSE [width |-> geo.width, height |-> geo.height]

\* the extent lambda of createSwapchain
chainExtent(caps, geo) ==
  IF caps.currentExtent.width # UndefinedExtent THEN caps.currentExtent
  ELSE [width |-> clamp(geo.width, caps.minImageExtent.width,
                        caps.maxImageExtent.width),
        height |-> clamp(geo.height, caps.minImageExtent.height,
                         caps.maxImageExtent.height)]

\* the format predicate without its test of the colour space
isWantedFormatAnySpace(f) == f.format = "B8G8R8A8Srgb"

isWantedFormat(f) == f.format = "B8G8R8A8Srgb" /\ f.colorSpace = "SrgbNonlinear"

\* find_if over the surface formats: the first wanted one, Len + 1 for end()
RECURSIVE FindFormat(_, _)
FindFormat(formats, i) ==
  IF i > Len(formats) THEN i
  ELSE IF isWantedFormat(formats[i]) THEN i ELSE FindFormat(formats, i + 1)

\* a present-mode test that falls back to whatever mode is offered
hasAnyMode(presentModes) == presentModes # <<>>

\* find_if over the present modes
hasFifo(presentModes) == \E i \in 1..Len(presentModes) : presentModes[i] = "Fifo"

\* the image count without its upper limit
imageCountUnclamped(caps) == caps.minImageCount + 1

\* the upper limit of the image count
imageCountLimit(caps) ==
  IF caps.maxImageCount = 0 THEN UnboundedImageCount ELSE caps.maxImageCount

imageCount(caps) ==
  clamp(caps.minImageCount + 1, caps.minImageCount, imageCountLimit(caps))

sharingMode(q) ==
  IF q.graphicsFamily # q.presentFamily THEN "Concurrent" ELSE "Exclusive"

\* device.createSwapchainKHR, getSwapchainImagesKHR and their checks
createSwapchainKHR(m, in, info) ==
  IF Fails(in, "createSwapchainKHR")
  THEN Throw(Call(m, "init", "createSwapchainKHR", Null), "createSwapchainKHR")
  ELSE LET sc == m.drv.next
           m1 == [m EXCEPT
                    !.calls = Append(@, [fn |-> "init",
                                         call |-> "createSwapchainKHR",
                                         h |-> sc, arg |-> info]),
                    !.vk.swapchain = sc,
                    !.drv.live = @ \cup {sc},
                    !.drv.next = @ + 1]
           m2 == [Call(m1, "init", "getSwapchainImagesKHR", sc) EXCEPT
                    !.vk.images = Fresh(m1, in.nImages),
                    !.drv.next = @ + in.nImages]
       IN IF in.nImages = 0 THEN Throw(m2, "failed to get swap chain images")
          ELSE m2

createSwapchain(m, in) ==
  IF m.thrown # NoExc THEN m
  ELSE IF derefSurface(m, in, "getSurfaceCapabilitiesKHR").thrown # NoExc
  THEN derefSurface(m, in, "getSurfaceCapabilitiesKHR")
  ELSE LET caps == in.caps
           m0 == derefSurface(m, in, "getSurfaceCapabilitiesKHR")
           \* platformVkImpl->getGeometry(), asked in the sentinel case only
           mg == IF caps.currentExtent.width # UndefinedExtent THEN m0
                 ELSE [m0 EXCEPT !.calls = Append(@, [fn |-> "init",
                                                      call |-> "getGeometry",
                                                      h |-> Null,
                                                      arg |-> m.wl.geometry])]
           m1 == [mg EXCEPT !.vk.extent = chainExtent(caps, m.wl.geometry)]
           at == FindFormat(in.formats, 1)
           m2 == [m1 EXCEPT !.vk.format = in.formats[at].format]
           info == [minImageCount |-> imageCount(caps),
                    imageFormat |-> in.formats[at],
                    imageExtent |-> m1.vk.extent,
                    imageSharingMode |-> sharingMode(m.vk.queueFamilyIndices),
                    presentMode |-> "Fifo"]
       IN IF at > Len(in.formats)
          THEN Throw(m1, "failed to find suitable surface format")
          ELSE IF ~hasFifo(in.presentModes)
          THEN Throw(m2, "failed to find suitable present mode")
          \* std::clamp with hi < lo is undefined: a hardened library
          \* aborts (in.clampUB = "abort"), the others return hi
          ELSE IF imageCountLimit(caps) < caps.minImageCount
                  /\ in.clampUB = "abort"
          THEN Throw(m2, "fault")
          ELSE IF ~isComplete(m.vk.queueFamilyIndices)
          THEN Throw(m2, "queue family indices are not complete")
          ELSE createSwapchainKHR(m2, in, info)

(* ------------------ views, render pass, framebuffers -------------------- *)

\* vector::resize(n) of a vector of handles
resize(v, n) == [i \in 1..n |-> IF i <= Len(v) THEN v[i] ELSE Null]

\* the loop of createImageViews from index i (1-based) on
RECURSIVE imageViewLoop(_, _, _)
imageViewLoop(m, in, i) ==
  IF i > Len(m.vk.images) THEN m
  ELSE IF Fails(in, "createImageView") /\ in.failIdx = i
  THEN Throw([Call(m, "init", "createImageView", Null)
                EXCEPT !.vk.imageViews[i] = Null], "createImageView")
  ELSE imageViewLoop([Create(m, "init", "createImageView") EXCEPT
                        !.vk.imageViews[i] = m.drv.next], in, i + 1)

createImageViews(m, in) ==
  IF m.thrown # NoExc THEN m
  ELSE imageViewLoop(
         [m EXCEPT !.vk.imageViews = resize(@, Len(m.vk.images))], in, 1)

createRenderPass(m, in) ==
  IF m.thrown # NoExc THEN m
  ELSE NativeOrThrow(m, in, "createRenderPass",
         [Create(m, "init", "createRenderPass") EXCEPT
            !.vk.renderPass = m.drv.next])

\* the loop of createFramebuffers from index i (1-based) on
RECURSIVE framebufferLoop(_, _, _)
framebufferLoop(m, in, i) ==
  IF i > Len(m.vk.imageViews) THEN m
  ELSE IF Fails(in, "createFramebuffer") /\ in.failIdx = i
  THEN Throw([Call(m, "init", "createFramebuffer", Null)
                EXCEPT !.vk.framebuffers[i] = Null], "createFramebuffer")
  ELSE framebufferLoop([Create(m, "init", "createFramebuffer") EXCEPT
                          !.vk.framebuffers[i] = m.drv.next], in, i + 1)

createFramebuffers(m, in) ==
  IF m.thrown # NoExc THEN m
  ELSE framebufferLoop(
         [m EXCEPT !.vk.framebuffers = resize(@, Len(m.vk.imageViews))], in, 1)

(* --------------- command pools, command buffers, sync ------------------- *)

createCommandPool(m, in, role) ==
  IF m.thrown # NoExc THEN m
  ELSE NativeOrThrow(m, in, "createCommandPool." \o role,
         [Create(m, "init", "createCommandPool." \o role) EXCEPT
            !.vk.commandPools[role] = m.drv.next])

createCommandPools(m, in) ==
  LET m1 == createCommandPool(m, in, "graphics")
      m2 == createCommandPool(m1, in, "transfer")
      m3 == createCommandPool(m2, in, "present")
  IN createCommandPool(m3, in, "compute")

\* device.allocateCommandBuffers of n buffers from the role's pool
allocateCommandBuffers(m, in, role, n) ==
  IF m.thrown # NoExc THEN m
  ELSE IF Fails(in, "allocateCommandBuffers." \o role) \/ n = 0
  THEN Throw([Call(m, "init", "allocateCommandBuffers." \o role, Null)
                EXCEPT !.vk.commandBuffers[role] = <<>>],
             "allocateCommandBuffers." \o role)
  ELSE [CreateN(m, "init", "allocateCommandBuffers." \o role, n) EXCEPT
          !.vk.commandBuffers[role] = Fresh(m, n)]

\* createCommandBuffers with a single graphics buffer, whatever the number
\* of framebuffers
createCommandBuffersOneGraphics(m, in) ==
  LET m1 == allocateCommandBuffers(m, in, "graphics", 1)
      m2 == allocateCommandBuffers(m1, in, "transfer", 1)
      m3 == allocateCommandBuffers(m2, in, "present", 1)
  IN allocateCommandBuffers(m3, in, "compute", 1)

createCommandBuffers(m, in) ==
  LET m1 == allocateCommandBuffers(m, in, "graphics", Len(m.vk.framebuffers))
      m2 == allocateCommandBuffers(m1, in, "transfer", 1)
      m3 == allocateCommandBuffers(m2, in, "present", 1)
  IN allocateCommandBuffers(m3, in, "compute", 1)

createImageAvailableSemaphore(m, in) ==
  IF m.thrown # NoExc THEN m
  ELSE NativeOrThrow(m, in, "createSemaphore.imageAvailable",
         [Create(m, "init", "createSemaphore.imageAvailable") EXCEPT
            !.vk.imageAvailableSemaphore = m.drv.next])

createRenderFinishedSemaphore(m, in) ==
  IF m.thrown # NoExc THEN m
  ELSE NativeOrThrow(m, in, "createSemaphore.renderFinished",
         [Create(m, "init", "createSemaphore.renderFinished") EXCEPT
            !.vk.renderFinishedSemaphore = m.drv.next])

\* createInFlightFence without the eSignaled flag
createInFlightFenceUnsignaled(m, in) ==
  IF m.thrown # NoExc THEN m
  ELSE NativeOrThrow(m, in, "createFence",
         [Create(m, "init", "createFence") EXCEPT
            !.vk.inFlightFence = m.drv.next])

\* the fence is created with eSignaled
createInFlightFence(m, in) ==
  IF m.thrown # NoExc THEN m
  ELSE NativeOrThrow(m, in, "createFence",
         [Create(m, "init", "createFence") EXCEPT
            !.vk.inFlightFence = m.drv.next,
            !.drv.signaled = @ \cup {m.drv.next}])

createSyncObjects(m, in) ==
  createInFlightFence(
    createRenderFinishedSemaphore(createImageAvailableSemaphore(m, in), in), in)

\* init that catches the error of a stage and returns as if it had
\* succeeded
initSwallowsErrors(m, in, cb) ==
  IF m.thrown # NoExc THEN m
  ELSE LET m0 == [Mark(m, "init", "enter") EXCEPT !.drv.inits = @ + 1]
           m1 == acquireSurface(pickPhysicalDevice(createInstance(m0, in), in), in, cb)
           m2 == createRenderPass(createImageViews(createSwapchain(
                   createDevice(m1, in), in), in), in)
           m3 == createSyncObjects(createCommandBuffers(createCommandPools(
                   createFramebuffers(m2, in), in), in), in)
       IN Mark([m3 EXCEPT !.thrown = NoExc], "init", "return")

\* init with the framebuffers built ahead of the render pass
initFramebuffersFirst(m, in, cb) ==
  IF m.thrown # NoExc THEN m
  ELSE LET m0 == [Mark(m, "init", "enter") EXCEPT !.drv.inits = @ + 1]
           m1 == acquireSurface(pickPhysicalDevice(createInstance(m0, in), in), in, cb)
           m2 == createFramebuffers(createImageViews(createSwapchain(
                   createDevice(m1, in), in), in), in)
           m3 == createSyncObjects(createCommandBuffers(createCommandPools(
                   createRenderPass(m2, in), in), in), in)
       IN Mark(m3, "init", "return")

\* VulkanGfxBase::init(create_surface_fn); cb: a callback was passed
init(m, in, cb) ==
  IF m.thrown # NoExc THEN m
  ELSE LET m0 == [Mark(m, "init", "enter") EXCEPT !.drv.inits = @ + 1]
           m1 == acquireSurface(pickPhysicalDevice(createInstance(m0, in), in), in, cb)
           m2 == createRenderPass(createImageViews(createSwapchain(
                   createDevice(m1, in), in), in), in)
           m3 == createSyncObjects(createCommandBuffers(createCommandPools(
                   createFramebuffers(m2, in), in), in), in)
       IN Mark(m3, "init", "return")

(* --------------------------- WaylandGfx::redraw ------------------------- *)

\* a native call of redraw that reports a result: in.fail makes it err
RedrawOrThrow(m, in, name, h, ok) ==
  IF m.thrown # NoExc THEN m
  ELSE IF Fails(in, name) THEN Throw(Call(m, "redraw", name, h), name)
  ELSE ok

\* device.waitForFences with UINT64_MAX: returns once the fence is signaled;
\* a fence that no submitted batch will signal is waited on for ever
waitForFences(m, in) ==
  LET f == m.vk.inFlightFence
  IN RedrawOrThrow(m, in, "waitForFences", f,
       IF f \notin m.drv.signaled \cup m.drv.pending
       THEN Throw(Call(m, "redraw", "waitForFences", f), "hang")
       ELSE [Call(m, "redraw", "waitForFences", f) EXCEPT
               !.drv.signaled = @ \cup {f}, !.drv.pending = @ \ {f}])

resetFences(m, in) ==
  LET f == m.vk.inFlightFence
  IN RedrawOrThrow(m, in, "resetFences", f,
       [Call(m, "redraw", "resetFences", f) EXCEPT !.drv.signaled = @ \ {f}])

\* the driver picks the image: in.imgIdx
acquireNextImageKHR(m, in) ==
  RedrawOrThrow(m, in, "acquireNextImageKHR", m.vk.swapchain,
    [m EXCEPT
       !.calls = Append(@, [fn |-> "redraw", call |-> "acquireNextImageKHR",
                            h |-> m.vk.swapchain, arg |-> in.imgIdx]),
       !.drv.signaled = @ \cup {m.vk.imageAvailableSemaphore}])

\* reset and re-record the graphics command buffer of image idx (0-based);
\* an index outside the vectors is a fault
recordCommandBuffer(m, idx) ==
  IF m.thrown # NoExc THEN m
  ELSE IF \/ idx >= Len(m.vk.commandBuffers.graphics)
          \/ Len(m.vk.commandBuffers.present) = 0
          \/ idx >= Len(m.vk.framebuffers)
  THEN Throw(m, "fault")
  ELSE LET cb == m.vk.commandBuffers.graphics[idx + 1]
           m1 == Call(m, "redraw", "reset", cb)
           m2 == Call(m1, "redraw", "reset", m.vk.commandBuffers.present[1])
           m3 == Call(m2, "redraw", "begin", cb)
           m4 == [m3 EXCEPT
                    !.calls = Append(@, [fn |-> "redraw",
                                         call |-> "beginRenderPass", h |-> cb,
                                         arg |-> m.vk.framebuffers[idx + 1]])]
           m5 == Call(m4, "redraw", "endRenderPass", cb)
       IN Call(m5, "redraw", "end", cb)

\* queue.submit: waits on imageAvailable, will signal renderFinished and
\* the fence
submit(m, in) ==
  RedrawOrThrow(m, in, "submit", m.vk.queue,
    [m EXCEPT
       !.calls = Append(@, [fn |-> "redraw", call |-> "submit", h |-> m.vk.queue,
                            arg |-> [wait |-> m.vk.imageAvailableSemaphore,
                                     buffer |-> m.vk.commandBuffers.graphics[in.imgIdx + 1],
                                     signal |-> m.vk.renderFinishedSemaphore,
                                     fence |-> m.vk.inFlightFence]]),
       !.drv.signaled = @ \ {m.vk.imageAvailableSemaphore},
       !.drv.pending = @ \cup {m.vk.inFlightFence,
                               m.vk.renderFinishedSemaphore}])

presentKHR(m, in) ==
  RedrawOrThrow(m, in, "presentKHR", m.vk.presentQueue,
    [m EXCEPT
       !.calls = Append(@, [fn |-> "redraw", call |-> "presentKHR",
                            h |-> m.vk.presentQueue,
                            arg |-> [wait |-> m.vk.renderFinishedSemaphore,
                                     swapchain |-> m.vk.swapchain,
                                     index |-> in.imgIdx]]),
       !.drv.signaled = @ \ {m.vk.renderFinishedSemaphore},
       !.drv.pending = @ \ {m.vk.renderFinishedSemaphore}])

\* redraw that presents ahead of the submission
redrawPresentsFirst(m, in) ==
  IF m.thrown # NoExc THEN m
  ELSE LET m0 == Mark(m, "redraw", "enter")
           m1 == acquireNextImageKHR(resetFences(waitForFences(m0, in), in), in)
           m2 == submit(presentKHR(recordCommandBuffer(m1, in.imgIdx), in), in)
       IN Mark(IF m.wl.initialized THEN m2 ELSE m0, "redraw", "return")

\* redraw without the test of the initialized flag
redrawUnguarded(m, in) ==
  IF m.thrown # NoExc THEN m
  ELSE LET m0 == Mark(m, "redraw", "enter")
           m1 == acquireNextImageKHR(resetFences(waitForFences(m0, in), in), in)
           m2 == presentKHR(submit(recordCommandBuffer(m1, in.imgIdx), in), in)
       IN Mark(m2, "redraw", "return")

redraw(m, in) ==
  IF m.thrown # NoExc THEN m
  ELSE LET m0 == Mark(m, "redraw", "enter")
           m1 == acquireNextImageKHR(resetFences(waitForFences(m0, in), in), in)
           m2 == presentKHR(submit(recordCommandBuffer(m1, in.imgIdx), in), in)
       IN Mark(IF m.wl.initialized THEN m2 ELSE m0, "redraw", "return")

(* ------------------------------ WaylandGfx ------------------------------ *)

\* initialized.store(b)
storeInitialized(m, b) ==
  IF m.thrown # NoExc THEN m
  ELSE [m EXCEPT !.wl.initialized = b,
                 !.calls = Append(@, [fn |-> "WaylandGfx", call |-> "initialized.store",
                                      h |-> Null, arg |-> b])]

\* Config::set of GFX_WIDTH and GFX_HEIGHT
configSet(m, geo) ==
  [m EXCEPT !.config = [width |-> geo.width, height |-> geo.height],
            !.calls = Append(@, [fn |-> "WaylandGfx", call |-> "Config::set",
                                 h |-> Null, arg |-> geo])]

\* make_shared<Display>(): connects to the compositor and binds its globals
newDisplay(m, in) ==
  IF Fails(in, "wl_display_connect") THEN Throw(m, "wl_display_connect")
  ELSE [m EXCEPT !.wl.display = TRUE]

\* on_resize that stores the new geometry only after the rebuild
on_resizeStoresLate(m, in, new_geometry) ==
  IF GeometryEq(new_geometry, m.wl.geometry) THEN m
  ELSE LET m1 == storeInitialized(init(destroy(storeInitialized(m, FALSE)),
                                       in, FALSE), TRUE)
       IN IF m1.thrown # NoExc THEN m1
          ELSE configSet([m1 EXCEPT !.wl.geometry = new_geometry], new_geometry)

\* on_resize that raises the initialized flag before the rebuild
on_resizeFlagFirst(m, in, new_geometry) ==
  IF GeometryEq(new_geometry, m.wl.geometry) THEN m
  ELSE LET m1 == configSet([m EXCEPT !.wl.geometry = new_geometry], new_geometry)
       IN init(storeInitialized(destroy(storeInitialized(m1, FALSE)), TRUE),
               in, FALSE)

\* on_resize without its early return for an unchanged geometry
on_resizeUnguarded(m, in, new_geometry) ==
  LET m1 == configSet([m EXCEPT !.wl.geometry = new_geometry], new_geometry)
  IN storeInitialized(init(destroy(storeInitialized(m1, FALSE)), in, FALSE), TRUE)

\* on_resize without initialized.store(false) ahead of destroy()
on_resizeKeepsFlag(m, in, new_geometry) ==
  IF GeometryEq(new_geometry, m.wl.geometry) THEN m
  ELSE LET m1 == configSet([m EXCEPT !.wl.geometry = new_geometry], new_geometry)
       IN storeInitialized(init(destroy(m1), in, FALSE), TRUE)

\* the on_resize lambda of WaylandGfx::init.  It reads and writes
\* window->geometry through the member WaylandGfx::window, which is null
\* until make_shared<Window> has returned; through the null pointer this is
\* undefined: the process faults (in.nullDeref = "fault"), or the read
\* yields something other than new_geometry and the write is lost
\* (in.nullDeref = "garbage")
on_resize(m, in, new_geometry) ==
  IF m.thrown # NoExc THEN m
  ELSE IF ~m.wl.window /\ in.nullDeref = "fault" THEN Throw(m, "fault")
  ELSE IF m.wl.window /\ GeometryEq(new_geometry, m.wl.geometry) THEN m
  ELSE LET m0 == IF m.wl.window THEN [m EXCEPT !.wl.geometry = new_geometry] ELSE m
           m1 == configSet(m0, new_geometry)
       IN storeInitialized(init(destroy(storeInitialized(m1, FALSE)), in, FALSE), TRUE)

\* the configure callback of the libdecor frame, after the first one
frameConfigure(m, in, new_geometry) ==
  redraw(on_resize([m EXCEPT !.wl.configured = TRUE], in, new_geometry), in)

\* a Window constructor that returns without waiting for the compositor
returnUnconfigured(m, in) == m

\* wl_display_dispatch of the wait loop, returning ret
dispatch(m, ret) ==
  [m EXCEPT !.calls = Append(@, [fn |-> "Window", call |-> "wl_display_dispatch",
                                 h |-> Null, arg |-> ret])]

\* the wait loop of the Window constructor: while (!configured)
\* wl_display_dispatch; in.waitEvents is what the compositor sends
\* meanwhile: a first configure without a content size ("configure", which
\* stores the flag), a configure with the content size in.configureSize
\* ("resize": stores the flag, then on_resize and redraw_fn), the loss of
\* the connection ("error": dispatch returns -1, now and at every later
\* call, and the loop does not look at it) or anything else ("other").
\* When the events end without a configure the loop never returns.
RECURSIVE waitConfigured(_, _)
waitConfigured(m, in) ==
  IF m.thrown # NoExc \/ m.wl.configured THEN m
  ELSE IF in.waitEvents = <<>> THEN Throw(m, "hang")
  ELSE LET e == Head(in.waitEvents)
           m1 == dispatch(m, 0)
           m2 == [Call(m1, "Window", "configured.store", Null) EXCEPT
                    !.wl.configured = TRUE]
           m3 == IF e = "error" THEN Throw(dispatch(dispatch(m, -1), -1), "hang")
                 ELSE IF e = "configure" THEN m2
                 ELSE IF e = "resize"
                 THEN redraw(on_resize(m2, in, in.configureSize), in)
                 ELSE m1
       IN waitConfigured(m3, [in EXCEPT !.waitEvents = Tail(@)])

\* make_shared<Window>(...): reads the persisted geometry, maps the window
\* and dispatches until the first configure has set configured
newWindow(m, in) ==
  IF m.thrown # NoExc THEN m
  ELSE IF Fails(in, "libdecor_new") THEN Throw(m, "libdecor_new")
  ELSE LET m1 == waitConfigured(
                   [m EXCEPT !.wl.geometry = [width |-> m.config.width,
                                               height |-> m.config.height]],
                   in)
       IN IF m1.thrown # NoExc THEN m1 ELSE [m1 EXCEPT !.wl.window = TRUE]

\* WaylandGfx::init
WaylandGfx_init(m, in) ==
  redraw(storeInitialized(init(newWindow(newDisplay(m, in), in), in, TRUE), TRUE), in)

\* the done callback without its test of the closed flag
frameDoneIgnoresClosed(m, in, tick) ==
  LET m0 == [Call(m, "frameDone", "wl_callback_destroy", Null) EXCEPT
               !.wl.armed = FALSE]
      m1 == [m0 EXCEPT !.calls = Append(@, [fn |-> "frameDone", call |-> "on_tick",
                                            h |-> Null, arg |-> tick])]
      m2 == redraw(m1, in)
  IN IF ~tick THEN m1
     ELSE IF m2.thrown # NoExc THEN m2
     ELSE [Call(m2, "frameDone", "wl_surface_frame", Null) EXCEPT
             !.wl.armed = TRUE]

\* the done callback of the frame listener of platformEventLoop; tick is
\* what on_tick returns
frameDone(m, in, tick) ==
  LET m0 == [Call(m, "frameDone", "wl_callback_destroy", Null) EXCEPT
               !.wl.armed = FALSE]
      m1 == [m0 EXCEPT !.calls = Append(@, [fn |-> "frameDone", call |-> "on_tick",
                                            h |-> Null, arg |-> tick])]
      m2 == redraw(m1, in)
  IN IF m.wl.closed THEN m0
     ELSE IF ~tick THEN m1
     ELSE IF m2.thrown # NoExc THEN m2
     ELSE [Call(m2, "frameDone", "wl_surface_frame", Null) EXCEPT
             !.wl.armed = TRUE]

\* VulkanGfxBase::~VulkanGfxBase
baseDestructor(m) ==
  LET m1 == destroy(Mark(m, "~VulkanGfxBase", "enter"))
      m2 == IF m1.vk.device = Null THEN m1
            ELSE [Release(m1, "~VulkanGfxBase", "device.destroy", m1.vk.device)
                    EXCEPT !.vk.device = Null]
      m3 == IF m2.vk.instance = Null THEN m2
            ELSE [Release(m2, "~VulkanGfxBase", "instance.destroy", m2.vk.instance)
                    EXCEPT !.vk.instance = Null]
  IN Mark(m3, "~VulkanGfxBase", "return")

\* WaylandGfx::~WaylandGfx: the explicit call of the base destructor, the
\* members window and display, then the base destructor the language runs.
\* The explicit call ends the lifetime of the base subobject, so the second
\* run is undefined (in.secondDtor): it reads the handles as the first run
\* nulled them and ends quietly ("quiet"); or its member destructors free
\* the storage of the vectors a second time and the process faults
\* ("fault", when a vector holds storage: images is never cleared); or the
\* last store of the first run, instance = nullptr, a dead store at the end
\* of a lifetime, was dropped and the second run reads the old handle
\* ("stale")
WaylandGfx_destructor(m, in) ==
  LET m1 == baseDestructor(m)
      m2 == [m1 EXCEPT !.wl.window = FALSE, !.wl.display = FALSE,
                       !.vk.instance = IF in.secondDtor = "stale"
                                       THEN m.vk.instance ELSE @]
      m3 == baseDestructor(m2)
  IN IF in.secondDtor = "fault" /\ Len(m.vk.images) > 0
     THEN Throw(m3, "fault") ELSE m3

(* ------------------------------- inputs --------------------------------- *)

\* physical accelerators a driver may enumerate
MaxDevices == 2

DeviceKinds == [deviceType : {"discrete", "integrated", "cpu"},
                geometryShader : BOOLEAN]

SeqsUpTo(S, n) == UNION {[1..k -> S] : k \in 0..n}

DevLists == SeqsUpTo(DeviceKinds, MaxDevices)

FamilyLists == SeqsUpTo(SUBSET Roles, MaxFamilies)

WantedFormat == [format |-> "B8G8R8A8Srgb", colorSpace |-> "SrgbNonlinear"]

OtherFormat == [format |-> "R8G8B8A8Unorm", colorSpace |-> "SrgbNonlinear"]

\* the wanted format in another colour space
OtherSpace == [format |-> "B8G8R8A8Srgb", colorSpace |-> "DisplayP3Nonlinear"]

\* surface formats a surface may report
MaxFormats == 2

FormatLists == SeqsUpTo({WantedFormat, OtherFormat, OtherSpace}, MaxFormats)

PresentModeLists == {<<"Fifo">>, <<"Mailbox">>, <<"Mailbox", "Fifo">>, <<>>}

\* surface capabilities: the extent is reported, or left to the window
CapsSet ==
  {[minImageCount |-> 2, maxImageCount |-> mx, currentExtent |-> ce,
    minImageExtent |-> [width |-> 1, height |-> 1],
    maxImageExtent |-> [width |-> 700, height |-> 700]] :
     mx \in {0, 2}, ce \in {[width |-> UndefinedExtent, height |-> UndefinedExtent],
                            [width |-> 640, height |-> 480]}}

\* surfaces whose extent limits lie below, around and above the window
\* geometry
ExtentCaps ==
  {[c EXCEPT !.minImageExtent = lim[1], !.maxImageExtent = lim[2]] :
     c \in CapsSet,
     lim \in {<<[width |-> 1, height |-> 1], [width |-> 700, height |-> 500]>>,
              <<[width |-> 1, height |-> 1], [width |-> 1000, height |-> 1000]>>,
              <<[width |-> 900, height |-> 400], [width |-> 1000, height |-> 1000]>>,
              <<[width |-> 900, height |-> 700], [width |-> 1000, height |-> 1000]>>}}

\* the input of a handler in which everything succeeds
GoodIn ==
  [fail |-> "none", failIdx |-> 0,
   devs |-> <<[deviceType |-> "discrete", geometryShader |-> TRUE]>>,
   families |-> <<Roles>>,
   caps |-> CHOOSE c \in CapsSet : c.maxImageCount = 0 /\ c.currentExtent.width = 640,
   formats |-> <<WantedFormat>>, presentModes |-> <<"Fifo">>,
   nImages |-> 1, imgIdx |-> 0,
   cbReturns |-> "surface", nullDeref |-> "fault", clampUB |-> "hi",
   waitEvents |-> <<"configure">>,
   configureSize |-> [width |-> DefaultWidth, height |-> DefaultHeight],
   secondDtor |-> "quiet"]

\* what the second run of the base destructor may do
ShutdownInputs ==
  {[GoodIn EXCEPT !.secondDtor = u] : u \in {"quiet", "fault", "stale"}}

\* the events the compositor sends while a Window is constructed
MaxWaitEvents == 2

WaitEventLists ==
  SeqsUpTo({"configure", "resize", "error", "other"}, MaxWaitEvents)

\* the event lists with a configure that carries a content size
ResizeEventLists ==
  {w \in WaitEventLists : \E i \in 1..Len(w) : w[i] = "resize"}

\* the largest image count a surface reports
MaxImageCount == 4

\* the (minImageCount, maxImageCount) pairs a surface may report:
\* maxImageCount is 0 (no limit) or at least minImageCount
CountCaps ==
  {[GoodIn.caps EXCEPT !.minImageCount = p[1], !.maxImageCount = p[2]] :
     p \in {q \in (1..MaxImageCount) \X (0..MaxImageCount) :
              q[2] = 0 \/ q[2] >= q[1]}}

\* the native calls of the chain and frame-sync stages that can fail
ChainFailPoints ==
  {"createSwapchainKHR", "createRenderPass",
   "createCommandPool.graphics", "createCommandPool.transfer",
   "createCommandPool.present", "createCommandPool.compute",
   "allocateCommandBuffers.graphics", "allocateCommandBuffers.transfer",
   "allocateCommandBuffers.present", "allocateCommandBuffers.compute",
   "createSemaphore.imageAvailable", "createSemaphore.renderFinished",
   "createFence"}

PerImageFailPoints == {"createImageView", "createFramebuffer"}

ContextFailPoints ==
  {"wl_display_connect", "libdecor_new", "createInstance",
   "vkCreateWaylandSurfaceKHR", "createDevice",
   "getQueue.queue", "getQueue.transferQueue", "getQueue.presentQueue",
   "getQueue.computeQueue"}

RedrawFailPoints ==
  {"waitForFences", "resetFences", "acquireNextImageKHR", "submit", "presentKHR"}

\* what the driver does in one frame: the image it hands out, or the call
\* that errs
FrameInputs ==
  {[GoodIn EXCEPT !.imgIdx = k] : k \in 0..(Len(vk.images) - 1)}
  \cup {[GoodIn EXCEPT !.fail = f] : f \in RedrawFailPoints}

\* what the driver does while the chain is (re)built and the first frame
\* drawn: the images it creates and the one it hands out, or the call that
\* fails
ChainInputs ==
  UNION {{[GoodIn EXCEPT !.nImages = n, !.imgIdx = k] : k \in 0..(n - 1)} :
           n \in 1..MaxImages}
  \cup {[GoodIn EXCEPT !.nImages = 0]}
  \cup {[GoodIn EXCEPT !.fail = f, !.nImages = MaxImages] :
          f \in ChainFailPoints \cup RedrawFailPoints}
  \cup {[GoodIn EXCEPT !.fail = f, !.nImages = MaxImages, !.failIdx = i] :
          f \in PerImageFailPoints, i \in 1..MaxImages}

\* what a rebuild after a resize meets in addition: a surface that leaves
\* the extent to the window
ResizeInputs ==
  ChainInputs
  \cup {[GoodIn EXCEPT !.caps = c] :
          c \in {x \in CapsSet : /\ x.currentExtent.width = UndefinedExtent
                                 /\ x.maxImageCount = 0}}

\* what the first init meets in addition
InitInputs ==
  ChainInputs
  \cup {[GoodIn EXCEPT !.fail = f] : f \in ContextFailPoints}
  \cup {[GoodIn EXCEPT !.families = <<f>>] : f \in SUBSET Roles}

\* the hardware and the surface the first init may meet
SetupInputs ==
  {[GoodIn EXCEPT !.devs = ds] : ds \in DevLists}
  \cup {[GoodIn EXCEPT !.families = fs, !.fail = f] :
          fs \in FamilyLists, f \in {"none", "createDevice"}}
  \cup {[GoodIn EXCEPT !.formats = fs] : fs \in FormatLists}
  \cup {[GoodIn EXCEPT !.presentModes = ps] : ps \in PresentModeLists}
  \cup {[GoodIn EXCEPT !.caps = c] : c \in CapsSet}
  \cup {[GoodIn EXCEPT !.caps = c] : c \in ExtentCaps}
  \cup {[GoodIn EXCEPT !.waitEvents = w] : w \in WaitEventLists}
  \cup {[GoodIn EXCEPT !.waitEvents = w, !.configureSize = g, !.nullDeref = u] :
          w \in ResizeEventLists, g \in Geometry, u \in {"fault", "garbage"}}
  \cup {[GoodIn EXCEPT !.caps = c, !.clampUB = u] :
          c \in CountCaps, u \in {"hi", "abort"}}

(* ------------------------------ actions --------------------------------- *)

\* the process after handler op left machine m
Landed(m, op, arg, in, next) ==
  /\ vk' = m.vk
  /\ wl' = m.wl
  /\ config' = m.config
  /\ drv' = m.drv
  /\ calls' = m.calls
  /\ last' = [op |-> op, arg |-> arg, in |-> in, thrown |-> m.thrown]
  /\ resizes' = IF op = "configure" /\ ~GeometryEq(arg[1], wl.geometry)
                THEN resizes + 1 ELSE resizes
  /\ pc' = IF m.thrown = NoExc THEN next
           ELSE IF m.thrown = "hang" THEN "hung"
           ELSE IF m.thrown = "fault" THEN "crashed"
           ELSE "failed"
  /\ mm' = mm

Start == [Machine EXCEPT !.calls = <<>>]

\* main: gfx->init()
MainInit ==
  /\ pc = "start"
  /\ \E in \in InitInputs :
       Landed(WaylandGfx_init(Start, in), "init", <<>>, in, "inited")

\* redraw() is a public member: the owner of the object calls it before
\* init(), while the initialized flag is still unset (main itself never
\* does; the frame and configure callbacks reach redraw() only after init)
EarlyRedraw ==
  /\ pc = "start"
  /\ last.op = "construct"
  /\ \E in \in {[GoodIn EXCEPT !.fail = f] : f \in {"none", "waitForFences"}} :
       Landed(redraw(Start, in), "redraw", <<>>, in, "start")

\* main: platformEventLoop arms the frame callback and starts dispatching
EnterLoop ==
  /\ pc = "inited"
  /\ wl' = [wl EXCEPT !.armed = TRUE]
  /\ pc' = "loop"
  /\ last' = [op |-> "enterLoop", arg |-> <<>>, in |-> GoodIn, thrown |-> NoExc]
  /\ calls' = <<>>
  /\ UNCHANGED <<vk, config, drv, resizes, mm>>

\* the compositor completes a frame
FrameDone ==
  /\ pc = "loop"
  /\ wl.armed
  /\ \E tick \in BOOLEAN :
       \E in \in IF tick /\ ~wl.closed THEN FrameInputs ELSE {GoodIn} :
         Landed(frameDone(Start, in, tick), "frameDone", <<tick>>, in, "loop")

\* the compositor configures the window anew
Configure ==
  /\ pc = "loop"
  /\ \E g \in Geometry :
       /\ GeometryEq(g, wl.geometry) \/ resizes < MaxResizes
       /\ \E in \in IF GeometryEq(g, wl.geometry) THEN FrameInputs ELSE ResizeInputs :
            Landed(frameConfigure(Start, in, g), "configure", <<g, wl.geometry>>, in,
                   "loop")

\* the user closes the window
Close ==
  /\ pc = "loop"
  /\ ~wl.closed
  /\ wl' = [wl EXCEPT !.closed = TRUE]
  /\ last' = [op |-> "close", arg |-> <<>>, in |-> GoodIn, thrown |-> NoExc]
  /\ calls' = <<>>
  /\ UNCHANGED <<vk, config, drv, pc, resizes, mm>>

\* a dispatch loop that leaves on a dispatch error only
loopExitsOnErrorOnly(err, closed) == err

\* the dispatch loop of platformEventLoop ends after a dispatch call that
\* erred (returned -1), or that returned with the closed flag set
loopExits(err, closed) == err \/ closed

\* a dispatch call returns, with an error or without, and the loop ends
LoopReturn(err) ==
  /\ pc = "loop"
  /\ loopExits(err, wl.closed)
  /\ last' = [op |-> "loopExit", arg |-> <<err>>, in |-> GoodIn, thrown |-> NoExc]
  /\ pc' = "exiting"
  /\ calls' = <<>>
  /\ UNCHANGED <<vk, wl, config, drv, resizes, mm>>

\* platformEventLoop returns: the closed flag is seen, or dispatch erred
LoopExit == \E err \in BOOLEAN : LoopReturn(err)

\* main returns, or the exception unwinds main: gfx is destroyed
Shutdown ==
  /\ pc \in {"exiting", "failed"}
  /\ \E in \in ShutdownInputs :
       Landed(WaylandGfx_destructor(Start, in), "shutdown", <<pc>>, in, "done")

\* main of the set-up runs: gfx->init() on any hardware and surface
SetupInit ==
  /\ pc = "start"
  /\ \E in \in SetupInputs :
       Landed(WaylandGfx_init(Start, in), "init", <<>>, in, "inited")

\* what a front end other than WaylandGfx may hand to VulkanGfxBase::init:
\* a callback that returns a null pointer, on an accelerator with or
\* without queue families
BaseInputs ==
  {[GoodIn EXCEPT !.cbReturns = c, !.nullDeref = u, !.families = fs] :
     c \in {"surface", "null"}, u \in {"fault", "garbage"},
     fs \in {<<>>, <<Roles>>}}

\* VulkanGfxBase::init called on a fresh object without a callback, or
\* with one that returns a null pointer
BaseInit ==
  /\ pc = "start"
  /\ \E cb \in BOOLEAN : \E in \in BaseInputs :
       /\ ~cb \/ in.cbReturns = "null"
       /\ Landed(init(Start, in, cb), "baseInit", <<cb>>, in, "inited")

(* ------------------------------- MMapped -------------------------------- *)

\* the largest file, in bytes
MaxFileSize == 2

\* what the path names: nothing, a directory, or a regular file of some size
Files ==
  {[kind |-> "absent", size |-> 0], [kind |-> "directory", size |-> 0]}
  \cup {[kind |-> "regular", size |-> n] : n \in 0..MaxFileSize}

\* the members of a freshly constructed MMapped (data_len_, data_), with
\* the exception in flight and the system calls of the running operation
MMapped0 ==
  [data_len_ |-> 0, data_ |-> "nullptr", thrown |-> NoExc, calls |-> <<>>,
   fds |-> 0]

\* what the system does in one operation: open() succeeds or not, and what
\* a well-formed mmap() returns
MMInputs == [open : {"ok", "fails"}, mmap : {"mapping", "MAP_FAILED"}]

MThrow(o, what) == [o EXCEPT !.thrown = what]

SysCall(o, name, arg, ret) ==
  [o EXCEPT !.calls = Append(@, [call |-> name, arg |-> arg, ret |-> ret])]

\* the exceptions of MMapped, all of type std::runtime_error
RuntimeErrors ==
  {"only supports mmapping regular files", "open failed", "mmap failed",
   "munmap failed", "attempt to access data of uninitialized MMapped object",
   "attempt to access size of uninitialized MMapped object"}

\* mmap(nullptr, len, PROT_READ, MAP_PRIVATE, fd, offset): EINVAL for a
\* length of 0 and for an offset that is no multiple of the page size
mmap(len, fd, offset, in) ==
  IF len = 0 \/ offset % 4096 # 0 THEN "MAP_FAILED" ELSE in.mmap

\* munmap(ptr, len): -1 for an address that is no mapping
munmap(ptr, len) == IF ptr = "mapping" /\ len > 0 THEN 0 ELSE -1

\* the deleter of data_; it runs inside shared_ptr, which may not throw, so
\* its exception ends the process
deleter(o) ==
  IF o.data_ = "nullptr" THEN o
  ELSE LET r == munmap(o.data_, o.data_len_)
           o1 == SysCall(o, "munmap", [ptr |-> o.data_, len |-> o.data_len_], r)
       IN IF r = -1 THEN MThrow(o1, "terminate")
          ELSE [o1 EXCEPT !.data_ = "nullptr"]

\* MMapped::operator bool
operatorBool(o) == o.data_ # "nullptr"

\* MMapped::mmapFile on the file the path names
mmapFile(o, file, in) ==
  IF file.kind # "regular"
  THEN MThrow(o, "only supports mmapping regular files")
  ELSE IF in.open = "fails"
  THEN MThrow(SysCall(o, "open", "O_RDONLY", -1), "open failed")
  ELSE LET o1 == [SysCall(o, "open", "O_RDONLY", 3) EXCEPT !.fds = @ + 1]
           ptr == mmap(file.size, 1, 1, in)
           o2 == SysCall(o1, "mmap",
                         [len |-> file.size, fd |-> 1, offset |-> 1], ptr)
           \* data_ = shared_ptr{ptr, ...}: the old value is released first
           o3 == deleter(o2)
           o4 == [o3 EXCEPT !.data_len_ = file.size, !.data_ = ptr]
       IN IF ptr = "nullptr" THEN MThrow([o2 EXCEPT !.data_len_ = file.size],
                                         "mmap failed")
          ELSE IF o3.thrown # NoExc THEN o3
          ELSE [SysCall(o4, "close", 3, 0) EXCEPT !.fds = @ - 1]

\* a constructor that tests the path before it looks at lazy
MMappedChecksFirst(file, lazy, in) ==
  IF file.kind # "regular"
  THEN MThrow(MMapped0, "only supports mmapping regular files")
  ELSE IF ~lazy THEN mmapFile(MMapped0, file, in) ELSE MMapped0

\* MMapped::MMapped(path, lazy)
MMapped(file, lazy, in) ==
  IF ~lazy THEN mmapFile(MMapped0, file, in) ELSE MMapped0

\* MMapped::data; the second component is what it returns
data(o) ==
  IF ~operatorBool(o)
  THEN <<MThrow(o, "attempt to access data of uninitialized MMapped object"),
         "nullptr">>
  ELSE <<o, o.data_>>

\* MMapped::size
size(o) ==
  IF ~operatorBool(o)
  THEN <<MThrow(o, "attempt to access size of uninitialized MMapped object"), 0>>
  ELSE <<o, o.data_len_>>

\* MMapped::~MMapped
MMappedDestructor(o) == deleter(o)

\* the members at the start of an operation
Calm(o) == [o EXCEPT !.thrown = NoExc, !.calls = <<>>]

\* no MMapped object, and the file the path names
MMIdle(f) ==
  [file |-> f, alive |-> FALSE, o |-> MMapped0, run |-> "running",
   last |-> [op |-> "none", arg |-> <<>>, thrown |-> NoExc, result |-> 0]]

\* the process after operation op left the members o
MMLanded(o, alive, op, arg, result) ==
  /\ mm' = [mm EXCEPT
              !.alive = alive,
              !.o = IF alive THEN o ELSE [MMapped0 EXCEPT !.calls = o.calls],
              !.run = IF o.thrown = "terminate" THEN "terminated" ELSE @,
              !.last = [op |-> op, arg |-> arg, thrown |-> o.thrown,
                        result |-> result]]
  /\ UNCHANGED <<vk, wl, config, drv, calls, pc, last, resizes>>

\* MMapped<char>{path, lazy}
MMConstruct ==
  /\ mm.run = "running"
  /\ ~mm.alive
  /\ \E lazy \in BOOLEAN : \E in \in MMInputs :
       LET o == MMapped(mm.file, lazy, in)
       IN MMLanded(o, o.thrown = NoExc, "construct", <<lazy, mm.file>>, 0)

\* mmapped.mmapFile()
MMMapFile ==
  /\ mm.run = "running"
  /\ mm.alive
  /\ \E in \in MMInputs :
       MMLanded(mmapFile(Calm(mm.o), mm.file, in), TRUE, "mmapFile",
                <<mm.file>>, 0)

\* mmapped.data()
MMData ==
  /\ mm.run = "running"
  /\ mm.alive
  /\ MMLanded(data(Calm(mm.o))[1], TRUE, "data", <<>>, data(Calm(mm.o))[2])

\* mmapped.size()
MMSize ==
  /\ mm.run = "running"
  /\ mm.alive
  /\ MMLanded(size(Calm(mm.o))[1], TRUE, "size", <<>>, size(Calm(mm.o))[2])

\* static_cast<bool>(mmapped)
MMBool ==
  /\ mm.run = "running"
  /\ mm.alive
  /\ MMLanded(Calm(mm.o), TRUE, "bool", <<>>, operatorBool(mm.o))

\* the object goes out of scope
MMDestruct ==
  /\ mm.run = "running"
  /\ mm.alive
  /\ MMLanded(MMappedDestructor(Calm(mm.o)), FALSE, "destruct", <<>>, 0)

\* the file system changes under the path
FileChanges ==
  /\ mm.run = "running"
  /\ \E f \in Files \ {mm.file} :
       mm' = [mm EXCEPT !.file = f,
                        !.last = [op |-> "file", arg |-> <<f>>, thrown |-> NoExc,
                                  result |-> 0]]
  /\ UNCHANGED <<vk, wl, config, drv, calls, pc, last, resizes>>

(* ---------------------------- specifications ---------------------------- *)

InitBackend ==
  /\ vk = VulkanGfxBase0
  /\ wl = WaylandGfx0
  /\ config = [width |-> DefaultWidth, height |-> DefaultHeight]
  /\ drv = Driver0
  /\ calls = <<>>
  /\ pc = "start"
  /\ resizes = 0
  /\ last = [op |-> "construct", arg |-> <<>>, in |-> GoodIn, thrown |-> NoExc]

Init ==
  /\ InitBackend
  /\ mm = MMIdle([kind |-> "absent", size |-> 0])

Next ==
  \/ MainInit
  \/ EarlyRedraw
  \/ EnterLoop
  \/ FrameDone
  \/ Configure
  \/ Close
  \/ LoopExit
  \/ Shutdown

Spec == Init /\ [][Next]_vars

\* the set-up runs: the first init on every hardware, then the shutdown
SetupNext ==
  \/ SetupInit
  \/ BaseInit
  \/ EnterLoop
  \/ Shutdown

SpecSetup == Init /\ [][SetupNext]_vars

\* the runs of an MMapped object over a path, as its tests drive it
InitMMapped ==
  /\ InitBackend
  /\ \E f \in Files : mm = MMIdle(f)

MMappedNext ==
  \/ MMConstruct
  \/ MMMapFile
  \/ MMData
  \/ MMSize
  \/ MMBool
  \/ MMDestruct
  \/ FileChanges

SpecMMapped == InitMMapped /\ [][MMappedNext]_vars

(* ------------------------- reading the trace ---------------------------- *)

IsMark(e) == e.call \in {"enter", "return"}

\* the positions of the trace where fn was entered (left)
Marks(fn, what) ==
  {i \in 1..Len(calls) : calls[i].fn = fn /\ calls[i].call = what}

\* the positions of the native calls fn issued
NativeCalls(fn) == {i \in 1..Len(calls) : calls[i].fn = fn /\ ~IsMark(calls[i])}

\* the return of the invocation of fn entered at position i
ReturnOf(fn, i) ==
  CHOOSE j \in Marks(fn, "return") :
    j > i /\ \A k \in Marks(fn, "return") : k > i => j <= k

\* BackendContext: connection, accelerator, device and the four queues
ContextOf(s) ==
  <<s.instance, s.physicalDevice, s.device, s.queue, s.transferQueue,
    s.presentQueue, s.computeQueue>>

ContextCreates ==
  {"createInstance", "enumeratePhysicalDevices", "createDevice",
   "getQueue.queue", "getQueue.transferQueue", "getQueue.presentQueue",
   "getQueue.computeQueue"}

\* the handles of PresentableChain and FrameSyncRing that s holds
ChainHandles(s) ==
  ({s.swapchain, s.renderPass, s.pipeline, s.pipelineLayout,
    s.imageAvailableSemaphore, s.renderFinishedSemaphore, s.inFlightFence}
   \cup Range(s.imageViews) \cup Range(s.framebuffers)
   \cup {s.commandPools[r] : r \in Roles}
   \cup UNION {Range(s.commandBuffers[r]) : r \in Roles}) \ {Null}

\* every chain and frame-sync field of s is null or empty
ChainEmpty(s) ==
  /\ s.inFlightFence = Null
  /\ s.imageAvailableSemaphore = Null
  /\ s.renderFinishedSemaphore = Null
  /\ \A r \in Roles : s.commandBuffers[r] = <<>> /\ s.commandPools[r] = Null
  /\ s.pipeline = Null
  /\ s.pipelineLayout = Null
  /\ s.framebuffers = <<>>
  /\ s.renderPass = Null
  /\ s.imageViews = <<>>
  /\ s.swapchain = Null

\* the step is a configure event of the running loop whose geometry is
\* (is not) the window's
SameGeometryStep ==
  /\ pc = "loop"
  /\ last'.op = "configure"
  /\ last'.arg[1].width = wl.geometry.width
  /\ last'.arg[1].height = wl.geometry.height

ResizeStep ==
  /\ pc = "loop"
  /\ last'.op = "configure"
  /\ \/ last'.arg[1].width # wl.geometry.width
     \/ last'.arg[1].height # wl.geometry.height

(* ------------------------------- claims --------------------------------- *)

\* C1: a resize notification whose geometry equals the current one returns
\* without calling destroy() or init(): no handle is created or destroyed,
\* the initialized flag is not cleared, and the geometry and the persisted
\* width/height stay as they were.
C1_EqualGeometryIsNoOp ==
  [][SameGeometryStep =>
       /\ \A i \in 1..Len(calls') :
            calls'[i].fn \notin {"init", "destroy", "WaylandGfx", "~VulkanGfxBase"}
       /\ drv'.next = drv.next
       /\ drv'.live = drv.live
       /\ drv'.released = drv.released
       /\ vk' = vk
       /\ wl'.initialized = wl.initialized
       /\ wl'.geometry = wl.geometry
       /\ config' = config]_vars

C1_Witness ==
  /\ pc = "loop"
  /\ last.op = "configure"
  /\ last.arg[1] = last.arg[2]
  /\ wl.initialized
  /\ resizes = 1
  /\ \E i \in NativeCalls("redraw") : calls[i].call = "presentKHR"

\* C2: over init(); destroy(); init() and longer alternations the
\* connection, the accelerator, the device and the four queues are created
\* once: destroy() leaves them untouched, the later init() issues no
\* creation call for them, and the handles stay those of the first init().
C2_ContextCreatedOnce ==
  [][pc = "loop" =>
       /\ \A i \in 1..Len(ContextOf(vk)) : ContextOf(vk)[i] # Null
       /\ ContextOf(vk') = ContextOf(vk)
       /\ {vk.instance, vk.device} \subseteq drv'.live
       /\ \A i \in 1..Len(calls') :
            /\ calls'[i].call \notin ContextCreates
            /\ IsMark(calls'[i]) => ContextOf(calls'[i].snap) = ContextOf(vk)]_vars

C2_Witness ==
  /\ pc = "loop"
  /\ last.op = "configure"
  /\ last.arg[1] # last.arg[2]
  /\ last.thrown = NoExc
  /\ Marks("destroy", "return") # {}
  /\ \E i \in Marks("init", "return") : calls[i].thrown = NoExc
  /\ vk.device # Null

\* C3: after init(); destroy(); init() every chain and frame-sync handle
\* the instance holds was created by the second init(); none is a handle
\* the destroy() in between released.
C3_ChainHandlesFresh ==
  [][ResizeStep =>
       /\ \A h \in ChainHandles(vk') :
            h >= drv.next /\ h \in drv'.live /\ h \notin drv'.released
       /\ ChainHandles(vk) \subseteq drv'.released
       /\ last'.thrown = NoExc =>
            /\ vk'.swapchain # Null
            /\ vk'.renderPass # Null
            /\ vk'.inFlightFence # Null
            /\ vk'.imageAvailableSemaphore # Null
            /\ vk'.renderFinishedSemaphore # Null
            /\ vk'.imageViews # <<>>
            /\ vk'.framebuffers # <<>>
            /\ \A r \in Roles :
                 vk'.commandPools[r] # Null /\ vk'.commandBuffers[r] # <<>>]_vars

C3_Witness ==
  /\ pc = "loop"
  /\ last.op = "configure"
  /\ last.arg[1] # last.arg[2]
  /\ last.thrown = NoExc
  /\ Len(vk.imageViews) = MaxImages
  /\ vk.inFlightFence # Null
  /\ drv.released # {}

\* positions i < j of log lie in one invocation of fn: fn is not entered
\* in between
SameRun(log, fn, i, j) ==
  /\ i < j
  /\ \A k \in (i + 1)..j : ~(log[k].fn = fn /\ log[k].call = "enter")

NativeOf(log, fn) == {i \in 1..Len(log) : log[i].fn = fn /\ ~IsMark(log[i])}

EntersOf(log, fn) ==
  {i \in 1..Len(log) : log[i].fn = fn /\ log[i].call = "enter"}

\* C4: destroy() on an instance that init() never touched issues no native
\* call (no device-idle wait, no release) and ends without a fault, every
\* handle still null or empty.
C4_DestroyBeforeInitIsNoOp ==
  drv.inits = 0 =>
    /\ \A i \in Marks("destroy", "enter") :
         /\ calls[i].snap = VulkanGfxBase0
         /\ calls[i + 1].fn = "destroy"
         /\ calls[i + 1].call = "return"
         /\ calls[i + 1].thrown = NoExc
         /\ calls[i + 1].snap = VulkanGfxBase0
    /\ LET d == destroy(Start)
       IN /\ Len(d.calls) = 2
          /\ d.thrown = NoExc
          /\ d.vk = VulkanGfxBase0
          /\ d.drv = drv
    /\ pc \notin {"crashed", "hung"}
    /\ drv.live = {}
    /\ drv.released = {}

C4_Witness ==
  /\ pc = "done"
  /\ drv.inits = 0
  /\ Marks("destroy", "enter") # {}
  /\ last.thrown = NoExc

\* C5: from every reachable state (a complete init, an init that failed
\* at any stage, an earlier destroy) destroy() ends without a fault and
\* leaves fence, semaphores, command-buffer sets, pools, pipeline, layout,
\* framebuffers, render pass, image views and swapchain null or empty; a
\* second destroy() right after it issues no release call.
C5_DestroyIdempotent ==
  /\ \A i \in Marks("destroy", "return") :
       calls[i].thrown = NoExc /\ ChainEmpty(calls[i].snap)
  /\ LET d1 == destroy(Start)
         d2 == destroy([d1 EXCEPT !.calls = <<>>])
     IN /\ d1.thrown = NoExc
        /\ ChainEmpty(d1.vk)
        /\ ChainHandles(vk) \subseteq d1.drv.released
        /\ d2.thrown = NoExc
        /\ d2.vk = d1.vk
        /\ d2.drv.released = d1.drv.released
        /\ \A i \in NativeOf(d2.calls, "destroy") : d2.calls[i].call = "waitIdle"

C5_Witness ==
  /\ pc = "done"
  /\ last.arg[1] = "failed"
  /\ last.thrown = NoExc
  /\ \E i \in NativeCalls("destroy") :
       calls[i].call = "destroyImageView" /\ calls[i].h = Null
  /\ \A i \in NativeCalls("destroy") : calls[i].call # "destroyFence"
  /\ Cardinality(Marks("destroy", "return")) = 2

\* the releases of destroy() in the order the claim lists them
DestroyOrder ==
  <<{"waitIdle"}, {"destroyFence"}, {"destroySemaphore.renderFinished"},
    {"destroySemaphore.imageAvailable"},
    {"freeCommandBuffers." \o r : r \in Roles},
    {"destroyCommandPool." \o r : r \in Roles},
    {"destroyPipeline"}, {"destroyPipelineLayout"}, {"destroyFramebuffer"},
    {"destroyRenderPass"}, {"destroyImageView"}, {"destroySwapchainKHR"}>>

DestroyRank(name) == CHOOSE k \in 1..Len(DestroyOrder) : name \in DestroyOrder[k]

\* the calls that release one handle each of a list
PerItem == {"destroyFramebuffer", "destroyImageView"}

DestroyInOrder(log) ==
  /\ \A i \in NativeOf(log, "destroy") :
       \E k \in 1..Len(DestroyOrder) : log[i].call \in DestroyOrder[k]
  /\ \A i, j \in NativeOf(log, "destroy") :
       SameRun(log, "destroy", i, j) =>
         /\ DestroyRank(log[i].call) <= DestroyRank(log[j].call)
         /\ log[i].call = log[j].call => log[i].call \in PerItem
  /\ \A e \in EntersOf(log, "destroy") :
       /\ log[e].snap.device # Null =>
            log[e + 1].call = "waitIdle" /\ log[e + 1].h = log[e].snap.device
       /\ \A i \in NativeOf(log, "destroy") : \A r \in Roles :
            (SameRun(log, "destroy", e, i)
             /\ log[i].call = "freeCommandBuffers." \o r) =>
              /\ log[i].h = log[e].snap.commandPools[r]
              /\ log[i].h # Null
              /\ \E j \in NativeOf(log, "destroy") :
                   /\ SameRun(log, "destroy", i, j)
                   /\ log[j].call = "destroyCommandPool." \o r
                   /\ log[j].h = log[i].h

\* C6: destroy() on an instance with a device waits for the device to be
\* idle before any release and releases in the order fence, render-finished
\* semaphore, image-available semaphore, the four command-buffer sets, the
\* four pools, pipeline, pipeline layout, framebuffers, render pass, image
\* views, swapchain; each set is freed against its pool before that pool
\* is destroyed.  No run holds a pipeline (its stage is a placeholder), so
\* the place of its release is read off destroy() applied to the state
\* with a pipeline and a layout put in.
C6_DestroyOrder ==
  /\ DestroyInOrder(calls)
  /\ DestroyInOrder(destroy(Start).calls)
  /\ vk.device # Null =>
       LET withPipeline == [Start EXCEPT !.vk.pipeline = drv.next,
                                         !.vk.pipelineLayout = drv.next + 1]
           log == destroy(withPipeline).calls
       IN /\ DestroyInOrder(log)
          /\ \E i, j \in NativeOf(log, "destroy") :
               /\ j = i + 1
               /\ log[i].call = "destroyPipeline"
               /\ log[j].call = "destroyPipelineLayout"

C6_Witness ==
  /\ last.op = "configure"
  /\ \E i, j, k, l \in NativeCalls("destroy") :
       /\ i < j /\ j < k /\ k < l
       /\ calls[i].call = "waitIdle"
       /\ calls[j].call = "destroyFence"
       /\ calls[k].call = "destroyFramebuffer"
       /\ calls[l].call = "destroySwapchainKHR"
  /\ Cardinality({i \in NativeCalls("destroy") :
                    calls[i].call = "destroyImageView"}) = MaxImages

\* the stages of init() in the order the claim lists them: the native
\* calls of each stage and the errors it throws without a native call
InitStages ==
  <<{"createInstance"},
    {"enumeratePhysicalDevices", "failed to find GPUs",
     "failed to find a suitable GPU"},
    {"create_surface_fn", "vkCreateWaylandSurfaceKHR",
     "create_surface fn must be a valid cb"},
    {"getSurfaceSupportKHR", "createDevice", "getQueue.queue",
     "getQueue.transferQueue", "getQueue.presentQueue",
     "getQueue.computeQueue", "bad_optional_access"},
    {"getSurfaceCapabilitiesKHR", "getGeometry", "createSwapchainKHR",
     "getSwapchainImagesKHR", "failed to find suitable surface format",
     "failed to find suitable present mode",
     "queue family indices are not complete",
     "failed to get swap chain images"},
    {"createImageView"},
    {"createRenderPass"},
    {"createFramebuffer"},
    {"createCommandPool." \o r : r \in Roles},
    {"allocateCommandBuffers." \o r : r \in Roles},
    {"createSemaphore.imageAvailable", "createSemaphore.renderFinished",
     "createFence"}>>

StageOf(name) == CHOOSE k \in 1..Len(InitStages) : name \in InitStages[k]

\* the stages whose result s already holds: init() skips them
StageDone(s, k) ==
  CASE k = 1 -> s.instance # Null
    [] k = 2 -> s.physicalDevice # Null
    [] k = 3 -> s.surface # Null
    [] k = 4 -> s.device # Null
    [] OTHER -> FALSE

\* every handle s holds, the surface the front end owns included
HeldHandles(s) ==
  ChainHandles(s) \cup ({s.instance, s.device, wl.surface} \ {Null})

\* C7: init() runs its stages in the order connection, accelerator
\* selection, surface acquisition, device, chain, image views, render
\* pass, framebuffers, command pools, command buffers, sync primitives; when
\* a stage fails no later stage runs, init() ends with the error, and the
\* handles the earlier stages created are left in place.
C7_InitStageOrder ==
  \A e \in Marks("init", "enter") :
    LET r == ReturnOf("init", e)
        run == {i \in NativeCalls("init") : e < i /\ i < r}
        t == calls[r].thrown
    IN /\ \A i \in run : \E k \in 1..Len(InitStages) : calls[i].call \in InitStages[k]
       /\ \A i, j \in run : i < j => StageOf(calls[i].call) <= StageOf(calls[j].call)
       /\ \A k \in 1..Len(InitStages) :
            StageDone(calls[e].snap, k) =>
              \A i \in run : StageOf(calls[i].call) # k
       /\ t = NoExc =>
            \A k \in 1..Len(InitStages) :
              ~StageDone(calls[e].snap, k) =>
                \E i \in run : StageOf(calls[i].call) = k
       /\ t # NoExc =>
            /\ \E k \in 1..Len(InitStages) : t \in InitStages[k]
            /\ \A i \in run : StageOf(calls[i].call) <= StageOf(t)
            /\ \A k \in 1..(StageOf(t) - 1) :
                 ~StageDone(calls[e].snap, k) =>
                   \E i \in run : StageOf(calls[i].call) = k
            /\ r = Len(calls)
            /\ last.thrown = t
            /\ pc = "failed"
            /\ \A i \in run :
                 (calls[i].h # Null
                  /\ calls[i].call \notin {"enumeratePhysicalDevices",
                                            "getSwapchainImagesKHR",
                                            "getQueue.queue", "getQueue.transferQueue",
                                            "getQueue.presentQueue",
                                            "getQueue.computeQueue"}) =>
                   /\ calls[i].h \in HeldHandles(calls[r].snap)
                   /\ calls[i].h \in HeldHandles(vk)
                   /\ calls[i].h \in drv.live

C7_Witness ==
  /\ pc = "failed"
  /\ last.op = "init"
  /\ last.thrown = "createRenderPass"
  /\ vk.instance # Null
  /\ vk.device # Null
  /\ vk.swapchain # Null
  /\ Len(vk.imageViews) = MaxImages
  /\ vk.framebuffers = <<>>
  /\ vk.inFlightFence = Null

\* all four role indices of q are set, written out field by field
AllFourSet(q) ==
  \A f \in {"graphicsFamily", "presentFamily", "transferFamily", "computeFamily"} :
    q[f] # NoIndex

\* C8: whenever init() returns successfully, the first time or on a later
\* re-init, isComplete() holds for queueFamilyIndices.
C8_InitSuccessMeansComplete ==
  /\ \A r \in Marks("init", "return") :
       calls[r].thrown = NoExc => AllFourSet(calls[r].snap.queueFamilyIndices)
  /\ pc \in {"inited", "loop"} => AllFourSet(vk.queueFamilyIndices)

C8_Witness ==
  /\ pc = "loop"
  /\ last.op = "configure"
  /\ last.arg[1] # last.arg[2]
  /\ \E r \in Marks("init", "return") :
       calls[r].thrown = NoExc /\ isComplete(calls[r].snap.queueFamilyIndices)
  /\ drv.inits = 2

\* the accelerator whose families are fs has no family for some role
LacksRole(fs) == \E r \in Roles : \A i \in 1..Len(fs) : r \notin fs[i]

\* C9: when the accelerator has no queue family for one of the four roles,
\* init() fails before device creation completes: no logical device handle
\* is created and held by the instance.
C9_NoDeviceWithoutAllRoles ==
  (last.op = "init" /\ LacksRole(last.in.families) /\ vk.surface # Null) =>
    /\ last.thrown # NoExc
    /\ vk.device = Null
    /\ \A i \in NativeCalls("init") :
         calls[i].call = "createDevice" => calls[i].h = Null

\* C10: redraw() called while the initialized flag is unset issues no
\* native call and returns without error.
C10_RedrawBeforeInitIsNoOp ==
  /\ \A e \in Marks("redraw", "enter") :
       ~calls[e].initialized =>
         /\ calls[e + 1].fn = "redraw"
         /\ calls[e + 1].call = "return"
         /\ calls[e + 1].thrown = NoExc
         /\ calls[e + 1].snap = calls[e].snap
  /\ ~wl.initialized =>
       \A in \in {[GoodIn EXCEPT !.fail = f] : f \in RedrawFailPoints \cup {"none"}} :
         LET d == redraw(Start, in)
         IN /\ Len(d.calls) = 2
            /\ d.thrown = NoExc
            /\ d.vk = vk
            /\ d.drv = drv
  /\ last.op = "redraw" => last.thrown = NoExc /\ pc = "start"

C10_Witness ==
  /\ last.op = "redraw"
  /\ ~wl.initialized
  /\ last.in.fail = "waitForFences"
  /\ Marks("redraw", "return") # {}
  /\ NativeCalls("redraw") = {}

CallbackCalls(log, e) ==
  {i \in NativeOf(log, "init") :
     SameRun(log, "init", e, i) /\ log[i].call = "create_surface_fn"}

\* C12: init() invokes the surface-creation callback exactly when no
\* surface handle is bound at that moment; over every sequence of init()
\* and destroy() calls, the resize-triggered destroy() + init(nullptr)
\* included, it is invoked at most once: destroy() keeps the surface handle
\* and the re-init reuses it.
C12_SurfaceCallbackOnce ==
  [][/\ \A e \in EntersOf(calls', "init") :
          LET r == CHOOSE j \in 1..Len(calls') :
                     /\ SameRun(calls', "init", e, j)
                     /\ calls'[j].fn = "init"
                     /\ calls'[j].call = "return"
          IN /\ calls'[e].snap.surface # Null =>
                  /\ CallbackCalls(calls', e) = {}
                  /\ calls'[r].thrown # "create_surface fn must be a valid cb"
                  /\ calls'[r].snap.surface = calls'[e].snap.surface
             /\ (calls'[e].snap.surface = Null
                 /\ calls'[r].snap.physicalDevice # Null) =>
                  Cardinality(CallbackCalls(calls', e)) = 1
     /\ \A i \in 1..Len(calls') :
          \A j \in 1..Len(calls') :
            (calls'[i].call = "create_surface_fn"
             /\ calls'[j].call = "create_surface_fn") => i = j
     /\ vk.surface # Null =>
          /\ vk'.surface = vk.surface
          /\ wl'.surface = wl.surface
          /\ wl.surface \in drv'.live
          /\ \A i \in 1..Len(calls') : calls'[i].call # "create_surface_fn"]_vars

C12_Witness ==
  /\ pc = "loop"
  /\ last.op = "configure"
  /\ last.arg[1] # last.arg[2]
  /\ last.thrown = NoExc
  /\ drv.inits = 2
  /\ vk.surface = AddrOfSurface
  /\ \E e \in Marks("init", "enter") : calls[e].snap.surface # Null
  /\ \A i \in 1..Len(calls) : calls[i].call # "create_surface_fn"

\* C13: when init() finds no bound surface and the callback is absent or
\* returns a null surface handle, init() fails with an error before the
\* device, the chain or any later stage runs, and the invalid handle is
\* never dereferenced nor passed to a native call.
C13_InvalidSurfaceIsFatal ==
  (last.op = "baseInit" /\ vk.physicalDevice # Null) =>
    /\ last.thrown \notin {NoExc, "fault"}
    /\ pc = "failed"
    /\ \A i \in NativeCalls("init") : StageOf(calls[i].call) <= 3
    /\ vk.device = Null
    /\ vk.swapchain = Null

\* redraw() requested in the state of trace entry e (a mark) issues no
\* native call
RedrawIdleAt(e) ==
  \A in \in {[GoodIn EXCEPT !.fail = f] : f \in {"none", "waitForFences"}} :
    LET d == redraw([Start EXCEPT !.vk = e.snap,
                                  !.wl.initialized = e.initialized], in)
    IN Len(d.calls) = 2 /\ d.thrown = NoExc /\ d.drv = drv

\* C14: during a resize with changed geometry the initialized flag is false
\* from before destroy() begins until after the re-init has completed, so
\* a redraw() requested inside that window issues no native call; when the
\* re-init fails the flag stays false and later redraw() calls issue no
\* native call either.
C14_FlagDownWhileRebuilding ==
  (last.op = "configure" /\ last.arg[1] # last.arg[2]) =>
    /\ Marks("destroy", "enter") # {}
    /\ Marks("init", "return") # {}
    /\ \A e \in Marks("destroy", "enter") :
         \E i \in 1..(e - 1) :
           /\ calls[i].call = "initialized.store"
           /\ calls[i].arg = FALSE
    /\ \A k \in Marks("destroy", "enter") \cup Marks("destroy", "return")
                \cup Marks("init", "enter") \cup Marks("init", "return") :
         ~calls[k].initialized /\ RedrawIdleAt(calls[k])
    /\ \A i \in 1..Len(calls) :
         (calls[i].call = "initialized.store" /\ calls[i].arg = TRUE) =>
           \E r \in Marks("init", "return") : r < i /\ calls[r].thrown = NoExc
    /\ (\E r \in Marks("init", "return") : calls[r].thrown # NoExc) =>
         /\ ~wl.initialized
         /\ Marks("redraw", "enter") = {}
         /\ \A in \in {[GoodIn EXCEPT !.fail = f] : f \in {"none", "waitForFences"}} :
              LET d == redraw(Start, in)
              IN Len(d.calls) = 2 /\ d.thrown = NoExc /\ d.drv = drv

C14_Witness ==
  /\ pc = "failed"
  /\ last.op = "configure"
  /\ last.arg[1] # last.arg[2]
  /\ last.thrown = "createFramebuffer"
  /\ ~wl.initialized
  /\ vk.swapchain # Null
  /\ Marks("destroy", "return") # {}

\* C15: after every successful init(), the first and every re-init of a
\* resize, the two semaphores are unsignaled and the in-flight fence is
\* signaled, so the first redraw() after it does not block in its fence
\* wait although no frame has been submitted.
C15_FencePreSignaled ==
  /\ pc # "hung"
  /\ \A r \in Marks("init", "return") :
       calls[r].thrown = NoExc =>
         LET s == calls[r].snap
         IN /\ s.inFlightFence # Null
            /\ s.inFlightFence \in calls[r].signaled
            /\ s.inFlightFence \notin calls[r].pending
            /\ s.imageAvailableSemaphore \notin calls[r].signaled \cup calls[r].pending
            /\ s.renderFinishedSemaphore \notin calls[r].signaled \cup calls[r].pending
            /\ \A e \in Marks("redraw", "enter") :
                 e > r =>
                   /\ calls[e].signaled = calls[r].signaled
                   /\ calls[e].initialized
                   /\ calls[e + 1].call = "waitForFences"
                   /\ calls[e + 1].h = s.inFlightFence
                   /\ last.in.fail = "none" => last.thrown = NoExc

C15_Witness ==
  /\ pc = "loop"
  /\ last.op = "configure"
  /\ last.arg[1] # last.arg[2]
  /\ last.thrown = NoExc
  /\ drv.inits = 2
  /\ \E r \in Marks("init", "return") : \E e \in Marks("redraw", "enter") :
       /\ r < e
       /\ calls[r].snap.inFlightFence \in calls[r].signaled
       /\ calls[e + 1].call = "waitForFences"

\* the native calls of one operational redraw() in the state s with the
\* acquired image idx, in the order the claim lists them
RedrawSteps(s, idx) ==
  LET cb == s.commandBuffers.graphics[idx + 1]
  IN <<[call |-> "waitForFences", h |-> s.inFlightFence],
       [call |-> "resetFences", h |-> s.inFlightFence],
       [call |-> "acquireNextImageKHR", h |-> s.swapchain],
       [call |-> "reset", h |-> cb],
       [call |-> "reset", h |-> s.commandBuffers.present[1]],
       [call |-> "begin", h |-> cb],
       [call |-> "beginRenderPass", h |-> cb],
       [call |-> "endRenderPass", h |-> cb],
       [call |-> "end", h |-> cb],
       [call |-> "submit", h |-> s.queue],
       [call |-> "presentKHR", h |-> s.presentQueue]>>

\* C16: an operational redraw() waits for the in-flight fence, resets it,
\* acquires the next image, resets and re-records the graphics command
\* buffer of the acquired index (begin, begin render pass, end render pass,
\* end), submits to the graphics queue (waiting on image-available,
\* signaling render-finished and the fence) and presents on the present
\* queue (waiting on render-finished), in that order; a command buffer is
\* re-recorded only after the fence wait, and after a failing step no later
\* step of the frame runs.
C16_RedrawOrder ==
  \A e \in Marks("redraw", "enter") :
    calls[e].initialized =>
      LET r == ReturnOf("redraw", e)
          n == r - e - 1
          s == calls[e].snap
          t == calls[r].thrown
          idx == IF n >= 4 THEN calls[e + 3].arg ELSE 0
          steps == RedrawSteps(s, idx)
      IN /\ n >= 1
         /\ n <= Len(steps)
         /\ \A k \in 1..n :
              /\ calls[e + k].fn = "redraw"
              /\ calls[e + k].call = steps[k].call
              /\ calls[e + k].h = steps[k].h
         /\ n >= 7 => calls[e + 7].arg = s.framebuffers[idx + 1]
         /\ n >= 10 => (t = "submit"
                        \/ calls[e + 10].arg =
                             [wait |-> s.imageAvailableSemaphore, buffer |-> steps[4].h,
                              signal |-> s.renderFinishedSemaphore,
                              fence |-> s.inFlightFence])
         /\ n >= 11 => (t = "presentKHR"
                        \/ calls[e + 11].arg =
                             [wait |-> s.renderFinishedSemaphore,
                              swapchain |-> s.swapchain, index |-> idx])
         /\ t = NoExc =>
              /\ n = Len(steps)
              /\ s.inFlightFence \in calls[r].pending
              /\ s.inFlightFence \notin calls[r].signaled
         /\ t # NoExc =>
              /\ calls[r - 1].call = t
              /\ r = Len(calls)
              /\ last.thrown = t
         /\ calls[r].snap = s

C16_Witness ==
  /\ pc = "loop"
  /\ last.op = "frameDone"
  /\ last.thrown = NoExc
  /\ last.in.imgIdx = MaxImages - 1
  /\ \E e \in Marks("redraw", "enter") :
       /\ calls[e].initialized
       /\ ReturnOf("redraw", e) = e + 12
       /\ calls[e].snap.inFlightFence \in calls[e].pending
       /\ calls[e + 11].call = "presentKHR"

\* C17: in every state outside a running init() or destroy() the instance
\* holds as many image views as framebuffers as presentable images, the
\* state destroy() leaves included.
C17_ViewsFramebuffersImages ==
  /\ Len(vk.imageViews) = Len(vk.framebuffers)
  /\ Len(vk.framebuffers) = Len(vk.images)
  /\ \A k \in Marks("destroy", "return") \cup Marks("init", "return") :
       /\ Len(calls[k].snap.imageViews) = Len(calls[k].snap.framebuffers)
       /\ Len(calls[k].snap.framebuffers) = Len(calls[k].snap.images)

\* C18: when the creation of the i-th image view (of the i-th framebuffer)
\* fails, the batch fails as a whole and nothing of it is retained: the
\* collection holds neither the handles of the indices below i nor null
\* placeholders.
C18_NoPartialBatch ==
  \A r \in Marks("init", "return") :
    /\ calls[r].thrown = "createImageView" => calls[r].snap.imageViews = <<>>
    /\ calls[r].thrown = "createFramebuffer" => calls[r].snap.framebuffers = <<>>

\* the list fs offers the format B8G8R8A8Srgb in the colour space
\* sRGB-nonlinear
OffersWanted(fs) ==
  \E i \in 1..Len(fs) :
    fs[i].format = "B8G8R8A8Srgb" /\ fs[i].colorSpace = "SrgbNonlinear"

\* the first init reached the chain stage: the device stage succeeded
ChainStageReached ==
  /\ last.op = "init"
  /\ \E i \in NativeCalls("init") :
       calls[i].call = "getQueue.computeQueue" /\ calls[i].h # Null

\* C19: for every list of supported surface formats, chain creation
\* selects an entry whose format is B8G8R8A8Srgb and whose colour space is
\* sRGB-nonlinear, whatever its place in the list, and never an entry with
\* another format or colour space.
C19_FormatSelection ==
  /\ \A fs \in FormatLists :
       LET at == FindFormat(fs, 1)
       IN /\ OffersWanted(fs) => at <= Len(fs)
          /\ at <= Len(fs) =>
               /\ fs[at].format = "B8G8R8A8Srgb"
               /\ fs[at].colorSpace = "SrgbNonlinear"
  /\ \A i \in NativeCalls("init") :
       (calls[i].call = "createSwapchainKHR" /\ calls[i].h # Null) =>
         /\ calls[i].arg.imageFormat.format = "B8G8R8A8Srgb"
         /\ calls[i].arg.imageFormat.colorSpace = "SrgbNonlinear"
         /\ calls[i].arg.imageFormat \in Range(last.in.formats)
         /\ vk.format = "B8G8R8A8Srgb"
  /\ (ChainStageReached /\ OffersWanted(last.in.formats)) =>
       /\ vk.format = "B8G8R8A8Srgb"
       /\ last.thrown # "failed to find suitable surface format"

C19_Witness ==
  /\ last.op = "init"
  /\ last.in.formats = <<OtherFormat, WantedFormat>>
  /\ last.thrown = NoExc
  /\ vk.swapchain # Null
  /\ vk.format = "B8G8R8A8Srgb"

\* C20: when the surface offers no {B8G8R8A8Srgb, sRGB-nonlinear} format,
\* or not the FIFO presentation mode, chain creation fails with an error,
\* no other format or mode is tried, and no swapchain handle is created.
C20_NoFallback ==
  (ChainStageReached
   /\ (~OffersWanted(last.in.formats) \/ "Fifo" \notin Range(last.in.presentModes))) =>
    /\ last.thrown = IF ~OffersWanted(last.in.formats)
                     THEN "failed to find suitable surface format"
                     ELSE "failed to find suitable present mode"
    /\ pc = "failed"
    /\ vk.swapchain = Null
    /\ vk.images = <<>>
    /\ \A i \in NativeCalls("init") : StageOf(calls[i].call) <= 4

C20_Witness ==
  /\ last.op = "init"
  /\ last.in.presentModes = <<"Mailbox">>
  /\ last.thrown = "failed to find suitable present mode"
  /\ vk.device # Null
  /\ vk.swapchain = Null

\* the successful createSwapchainKHR calls of the first init
ChainRequests ==
  {i \in NativeCalls("init") :
     calls[i].call = "createSwapchainKHR" /\ calls[i].h # Null}

\* min(minImageCount + 1, M), M = 3 for the sentinel 0, else maxImageCount
WantedImageCount(mn, mx) ==
  LET M == IF mx = 0 THEN 3 ELSE mx
  IN IF mn + 1 <= M THEN mn + 1 ELSE M

\* C21: for every pair (minImageCount, maxImageCount) the surface reports,
\* the image count requested for the chain is min(minImageCount + 1, M),
\* with M = 3 when maxImageCount is the sentinel 0 and M = maxImageCount
\* otherwise; (2, 0) gives 3 and (2, 2) gives 2.
C21_ImageCount ==
  /\ \A c \in CountCaps :
       imageCount(c) = WantedImageCount(c.minImageCount, c.maxImageCount)
  /\ \A i \in ChainRequests :
       /\ calls[i].arg.minImageCount =
            WantedImageCount(last.in.caps.minImageCount,
                             last.in.caps.maxImageCount)
       /\ (last.in.caps.minImageCount = 2 /\ last.in.caps.maxImageCount = 0)
            => calls[i].arg.minImageCount = 3
       /\ (last.in.caps.minImageCount = 2 /\ last.in.caps.maxImageCount = 2)
            => calls[i].arg.minImageCount = 2

C21_Witness ==
  /\ last.op = "init"
  /\ last.in.caps.minImageCount = 2
  /\ last.in.caps.maxImageCount = 2
  /\ \E i \in ChainRequests : calls[i].arg.minImageCount = 2

\* accelerator i of the enumeration ds is a discrete or integrated GPU with
\* the geometry-shader feature
Eligible(ds, i) ==
  /\ ds[i].deviceType \in {"discrete", "integrated"}
  /\ ds[i].geometryShader = TRUE

\* the first init enumerated the accelerators
Enumerated ==
  /\ last.op = "init"
  /\ \E i \in NativeCalls("init") : calls[i].call = "enumeratePhysicalDevices"

\* C22: the accelerator selected is the first one in enumeration order
\* that is a discrete or integrated GPU with the geometry-shader feature;
\* when the enumeration is empty or holds no such accelerator, selection
\* fails with an error and no accelerator is selected.
C22_FirstSuitableAccelerator ==
  Enumerated =>
    LET ds == last.in.devs
        ok == {i \in 1..Len(ds) : Eligible(ds, i)}
    IN IF ok # {}
       THEN /\ vk.physicalDevice \in ok
            /\ \A j \in ok : vk.physicalDevice <= j
            /\ last.thrown \notin {"failed to find GPUs",
                                   "failed to find a suitable GPU"}
       ELSE /\ vk.physicalDevice = Null
            /\ last.thrown = IF ds = <<>> THEN "failed to find GPUs"
                             ELSE "failed to find a suitable GPU"
            /\ pc = "failed"
            /\ vk.device = Null

C22_Witness ==
  /\ Enumerated
  /\ Len(last.in.devs) = 2
  /\ ~Eligible(last.in.devs, 1)
  /\ Eligible(last.in.devs, 2)
  /\ last.in.devs[2].deviceType = "integrated"
  /\ vk.physicalDevice = 2

\* the values of the role indices of q that are set
ResolvedIndices(q) ==
  {q.graphicsFamily, q.presentFamily, q.transferFamily, q.computeFamily}
    \ {NoIndex}

\* the request list reqs holds each index of q once and nothing else
OnePerDistinctIndex(reqs, q) ==
  /\ Len(reqs) = Cardinality(ResolvedIndices(q))
  /\ \A i, j \in 1..Len(reqs) : reqs[i] = reqs[j] => i = j
  /\ Range(reqs) = ResolvedIndices(q)

\* every assignment of the four role indices over the families scanned
IndexAssignments ==
  [graphicsFamily : {NoIndex} \cup (0..(MaxFamilies - 1)),
   presentFamily : {NoIndex} \cup (0..(MaxFamilies - 1)),
   transferFamily : {NoIndex} \cup (0..(MaxFamilies - 1)),
   computeFamily : {NoIndex} \cup (0..(MaxFamilies - 1))]

\* C23: for every assignment of the four role indices, aliased or not,
\* createDevice builds one device-queue-create-request per distinct
\* resolved index: as many requests as distinct values among the set
\* indices, and no family index in two requests.
C23_OneRequestPerDistinctIndex ==
  /\ \A q \in IndexAssignments : OnePerDistinctIndex(queueCreateInfos(q), q)
  /\ \A i \in NativeCalls("init") :
       (calls[i].call = "createDevice" /\ calls[i].h # Null) =>
         OnePerDistinctIndex(calls[i].arg, vk.queueFamilyIndices)

C23_Witness ==
  /\ last.op = "init"
  /\ vk.queueFamilyIndices.graphicsFamily = vk.queueFamilyIndices.presentFamily
  /\ vk.queueFamilyIndices.transferFamily = vk.queueFamilyIndices.computeFamily
  /\ vk.queueFamilyIndices.graphicsFamily # vk.queueFamilyIndices.transferFamily
  /\ isComplete(vk.queueFamilyIndices)
  /\ \E i \in NativeCalls("init") :
       /\ calls[i].call = "createDevice"
       /\ calls[i].h # Null
       /\ Len(calls[i].arg) = 2

\* v lies in [lo, hi]
Within(v, lo, hi) == lo <= v /\ v <= hi

\* v clamped into [lo, hi]: the nearest value of the interval
ClampedInto(v, lo, hi) ==
  IF v < lo THEN lo ELSE IF v > hi THEN hi ELSE v

\* C24: chain creation uses the surface's current extent as the chain
\* extent unless it carries the undefined sentinel; then the extent is the
\* window geometry with width and height clamped into the surface's
\* minimum and maximum extents, so it lies within them.
C24_ChainExtent ==
  \A i \in ChainRequests :
    LET c == last.in.caps
        e == calls[i].arg.imageExtent
    IN /\ e = vk.extent
       /\ c.currentExtent.width # UndefinedExtent => e = c.currentExtent
       /\ c.currentExtent.width = UndefinedExtent =>
            /\ e.width = ClampedInto(wl.geometry.width, c.minImageExtent.width,
                                     c.maxImageExtent.width)
            /\ e.height = ClampedInto(wl.geometry.height, c.minImageExtent.height,
                                      c.maxImageExtent.height)
            /\ Within(e.width, c.minImageExtent.width, c.maxImageExtent.width)
            /\ Within(e.height, c.minImageExtent.height, c.maxImageExtent.height)

C24_Witness ==
  /\ last.op = "init"
  /\ last.in.caps.currentExtent.width = UndefinedExtent
  /\ wl.geometry.width < last.in.caps.minImageExtent.width
  /\ wl.geometry.height > last.in.caps.minImageExtent.height
  /\ \E i \in ChainRequests :
       /\ calls[i].arg.imageExtent.width = last.in.caps.minImageExtent.width
       /\ calls[i].arg.imageExtent.height = wl.geometry.height

\* the on_tick calls, the redraws and the re-armings of the frame
\* subscription in the trace of a frame notification
TickCalls == {i \in NativeCalls("frameDone") : calls[i].call = "on_tick"}

Rearms == {i \in NativeCalls("frameDone") : calls[i].call = "wl_surface_frame"}

Redraws == Marks("redraw", "enter")

\* what one frame notification did, by the closed flag and by what on_tick
\* returned (last.arg[1])
FrameDoneShape ==
  last.op = "frameDone" =>
    IF wl.closed
    THEN TickCalls = {} /\ Redraws = {} /\ Rearms = {} /\ ~wl.armed
    ELSE /\ Cardinality(TickCalls) = 1
         /\ \A t \in TickCalls : calls[t].arg = last.arg[1]
         /\ IF last.arg[1] = TRUE
            THEN /\ Cardinality(Redraws) = 1
                 /\ \A t \in TickCalls : \A d \in Redraws : t < d
                 /\ last.thrown = NoExc =>
                      /\ Cardinality(Rearms) = 1
                      /\ \A a \in Rearms : \A r \in Marks("redraw", "return") : r < a
                      /\ wl.armed
            ELSE Redraws = {} /\ Rearms = {} /\ ~wl.armed

\* once the subscription is not re-armed, no frame notification arrives
\* and nothing arms it again
HaltedStaysHalted ==
  (pc = "loop" /\ ~wl.armed) => (last'.op # "frameDone" /\ ~wl'.armed)

\* C25: after each frame-completion notification of platformEventLoop: if
\* the window is closed, on_tick is not invoked, nothing is redrawn and the
\* subscription is not re-armed; otherwise on_tick is invoked once, and
\* exactly when it returns true one redraw is performed and the
\* subscription re-armed.  No frame notification redraws after the closed
\* flag was set or after on_tick returned false.
C25_FrameNotification == []FrameDoneShape /\ [][HaltedStaysHalted]_vars

C25_Witness ==
  /\ last.op = "frameDone"
  /\ ~wl.closed
  /\ last.arg[1] = TRUE
  /\ last.thrown = NoExc
  /\ Cardinality(Redraws) = 1
  /\ Cardinality(Rearms) = 1
  /\ wl.armed

\* on_tick has just returned false to the frame listener of an open window
TickedFalse ==
  /\ pc = "loop"
  /\ last.op = "frameDone"
  /\ ~wl.closed
  /\ \E t \in TickCalls : calls[t].arg = FALSE

\* C26: platformEventLoop halts (returns to its caller) when on_tick returns
\* false: once on_tick has returned false, the loop returns when the
\* dispatch call in progress returns, without a dispatch error.
C26_HaltsWhenTickFalse == TickedFalse => ENABLED LoopReturn(FALSE)

\* a step in which platformEventLoop returns to its caller
LoopReturns == pc = "loop" /\ pc' = "exiting"

\* a step in which the close notification is delivered
CloseStep == last'.op = "close"

ConfiguredStores ==
  {j \in 1..Len(calls) :
     calls[j].fn = "Window" /\ calls[j].call = "configured.store"}

\* C28: Window construction returns only after the compositor's first
\* configure callback has set the configured flag, so the backend init of
\* WaylandGfx::init() (surface callback, device, chain) never starts while
\* the window still awaits its first configuration.
C28_InitAfterConfigured ==
  last.op = "init" =>
    /\ wl.window => wl.configured
    /\ \A i \in Marks("init", "enter") \cup NativeCalls("init") :
         \E j \in ConfiguredStores : j < i
    /\ ~wl.configured =>
         /\ drv.inits = 0
         /\ Marks("init", "enter") = {}
         /\ vk = VulkanGfxBase0
         /\ pc \in {"hung", "failed"}

C28_Witness ==
  /\ last.op = "init"
  /\ last.in.waitEvents = <<"other", "configure">>
  /\ wl.window
  /\ wl.configured
  /\ vk.swapchain # Null
  /\ \E i \in Marks("init", "enter") : \E j \in ConfiguredStores : j < i

\* the last handler was a configure event with a geometry other than the
\* window's (last.arg[2] is the geometry before the event)
ResizeAccepted ==
  /\ last.op = "configure"
  /\ ~(last.arg[1].width = last.arg[2].width
       /\ last.arg[1].height = last.arg[2].height)

\* the writes of the persisted configuration in the trace
ConfigWrites ==
  {i \in 1..Len(calls) : calls[i].fn = "WaylandGfx" /\ calls[i].call = "Config::set"}

\* the geometry queries of the chain creation in the trace
GeometryQueries ==
  {i \in NativeCalls("init") : calls[i].call = "getGeometry"}

ConstructedOnNoFile ==
  /\ mm.last.op = "construct"
  /\ mm.last.arg[2].kind \in {"absent", "directory"}

\* C30: constructing an MMapped eagerly (lazy = false) on a path that is
\* not an existing regular file throws a runtime_error; constructing it
\* lazily (lazy = true) on the same path does not throw and yields an
\* object that converts to false.
C30_EagerThrowsLazyDoesNot ==
  ConstructedOnNoFile =>
    IF mm.last.arg[1] = FALSE
    THEN /\ mm.last.thrown \in RuntimeErrors
         /\ ~mm.alive
    ELSE /\ mm.last.thrown = NoExc
         /\ mm.alive
         /\ (mm.o.data_ # "nullptr") = FALSE

C30_Witness ==
  /\ ConstructedOnNoFile
  /\ mm.last.arg[1] = TRUE
  /\ mm.last.arg[2].kind = "absent"
  /\ mm.alive

\* the mmap calls of the last operation on the MMapped object
MmapCalls == {i \in 1..Len(mm.o.calls) : mm.o.calls[i].call = "mmap"}

\* C31: an MMapped object converts to true if and only if a mapping call
\* has succeeded on it; while it is uninitialized data() and size() each
\* throw a runtime_error; after a successful mapping data() returns a
\* non-null pointer to the file's bytes and size() the file's size.
C31_InitializedIffMapped ==
  mm.alive =>
    /\ (mm.o.data_ # "nullptr") <=> (mm.o.data_ = "mapping")
    /\ (mm.last.op \in {"data", "size"} /\ mm.o.data_ = "nullptr") =>
         mm.last.thrown \in RuntimeErrors
    /\ (mm.last.op = "data" /\ mm.o.data_ # "nullptr") =>
         mm.last.thrown = NoExc /\ mm.last.result = "mapping"
    /\ (mm.last.op = "size" /\ mm.o.data_ # "nullptr") =>
         mm.last.thrown = NoExc /\ mm.last.result = mm.o.data_len_

\* C40: when the memory-mapping call fails, mmapFile() throws a
\* runtime_error and the object stays uninitialized; the object never
\* becomes initialized holding the failure value of the mapping call as its
\* data pointer.
C40_MapFailureThrows ==
  /\ mm.o.data_ # "MAP_FAILED"
  /\ (/\ mm.last.op \in {"construct", "mmapFile"}
      /\ \E i \in MmapCalls : mm.o.calls[i].ret = "MAP_FAILED") =>
       /\ mm.last.thrown \in RuntimeErrors
       /\ mm.o.data_ = "nullptr"

\* the backend with fields s is fully built
BackendBuilt(s) ==
  /\ s.device # Null
  /\ s.swapchain # Null
  /\ s.renderPass # Null
  /\ s.imageAvailableSemaphore # Null
  /\ s.renderFinishedSemaphore # Null
  /\ s.inFlightFence # Null
  /\ Len(s.images) >= 1
  /\ Len(s.commandBuffers.graphics) = Len(s.images)
  /\ Len(s.framebuffers) = Len(s.images)

\* C32: in every state before the destruction of the WaylandGfx object
\* begins, a true initialized flag means the backend is fully built:
\* device, swapchain, render pass, both semaphores and the in-flight fence
\* are set, and the graphics command buffers and the framebuffers hold one
\* entry per presentable image.
C32_OperationalMeansBuilt ==
  last.op # "shutdown" =>
    /\ wl.initialized => BackendBuilt(vk)
    /\ \A k \in 1..Len(calls) :
         (IsMark(calls[k]) /\ calls[k].initialized) => BackendBuilt(calls[k].snap)

C32_Witness ==
  /\ ResizeAccepted
  /\ wl.initialized
  /\ BackendBuilt(vk)
  /\ \E k \in Marks("init", "enter") :
       ~calls[k].initialized /\ ~BackendBuilt(calls[k].snap)

\* the in-flight fence of state s is signaled, or a submitted batch will
\* signal it, in the driver state d
FenceWillSignal(s, d) == s.inFlightFence \in d.signaled \cup d.pending

\* C33: an operational redraw() that starts waiting on the in-flight fence
\* finds it signaled or guarded by a pending submission; after a redraw()
\* that failed between the fence reset and the submission, a following
\* redraw() does not block for ever on the fence.
C33_FenceWaitReturns ==
  /\ \A e \in Marks("redraw", "enter") :
       calls[e].initialized =>
         calls[e].snap.inFlightFence \in calls[e].signaled \cup calls[e].pending
  /\ (wl.initialized /\ last.op # "shutdown") =>
       /\ FenceWillSignal(vk, drv)
       /\ redraw(Start, GoodIn).thrown # "hang"

\* the device of state s has its family indices and its four role queues
DeviceHasQueues(s) ==
  /\ isComplete(s.queueFamilyIndices)
  /\ s.queue # Null
  /\ s.transferQueue # Null
  /\ s.presentQueue # Null
  /\ s.computeQueue # Null

\* C34: in every state, a logical device handle that is set comes with
\* complete queueFamilyIndices and the four role queues (graphics,
\* transfer, present, compute) set; also after a createDevice() that
\* failed.
C34_DeviceImpliesQueues ==
  /\ vk.device # Null => DeviceHasQueues(vk)
  /\ \A r \in Marks("init", "return") :
       calls[r].snap.device # Null => DeviceHasQueues(calls[r].snap)

\* C36: for every capability pair with maxImageCount = 0 or maxImageCount
\* >= minImageCount, the image count requested for the chain is at least
\* minImageCount, and at most maxImageCount when maxImageCount is not 0.
C36_ImageCountInRange ==
  \A i \in ChainRequests :
    LET c == last.in.caps
        n == calls[i].arg.minImageCount
    IN (c.maxImageCount = 0 \/ c.maxImageCount >= c.minImageCount) =>
         /\ n >= c.minImageCount
         /\ c.maxImageCount # 0 => n <= c.maxImageCount

\* the backend inits of the trace that a resize handler started: those that
\* follow its initialized.store(false)
ResizeReinits ==
  {k \in Marks("init", "enter") :
     \E j \in 1..(k - 1) : /\ calls[j].fn = "WaylandGfx"
                           /\ calls[j].call = "initialized.store"
                           /\ calls[j].arg = FALSE}

\* the event list w delivers a configure with a content size before any
\* other configure: the resize handler runs inside the Window constructor
EarlyResize(w) ==
  \E i \in 1..Len(w) : w[i] = "resize" /\ \A j \in 1..(i - 1) : w[j] = "other"

\* C35: whenever the resize handler runs with a changed geometry and
\* re-initializes the backend with a null callback, the window pointer of
\* WaylandGfx is assigned and a surface handle is bound, for every order of
\* the compositor's configure events, also a non-initial configure
\* delivered while the Window constructor still dispatches events.
C35_ResizeAfterSetup ==
  /\ \A k \in ResizeReinits :
       /\ last.op = "configure"
       /\ wl.window
       /\ calls[k].snap.surface # Null
  /\ (last.op = "init" /\ EarlyResize(last.in.waitEvents)) =>
       last.thrown \notin {"fault", "create_surface fn must be a valid cb"}

\* the dispatch calls of the Window constructor's wait loop in the trace
WaitDispatches ==
  {i \in 1..Len(calls) :
     calls[i].fn = "Window" /\ calls[i].call = "wl_display_dispatch"}

\* C37: the "dispatch until configured" wait of Window construction
\* terminates: it ends once the configured flag is set, and it ends with an
\* error when the dispatch primitive reports a failure, rather than calling
\* dispatch again for ever.
C37_WaitEnds ==
  \A i \in WaitDispatches :
    /\ \A j \in ConfiguredStores : i < j
    /\ calls[i].arg = -1 =>
         /\ \A j \in WaitDispatches : j <= i
         /\ last.thrown \notin {NoExc, "hang"}
         /\ pc # "hung"

\* the positions of the native calls named name in the trace
CallsNamed(name) == {i \in 1..Len(calls) : calls[i].call = name}

\* C38: at shutdown the base teardown runs twice, yet the logical device
\* and the driver connection are each destroyed exactly once, every chain
\* and frame-sync release precedes the destruction of the device, the
\* device is destroyed before the driver connection, and the second run
\* issues no native release call.
C38_TeardownTwiceReleasesOnce ==
  last.op = "shutdown" =>
    LET runs == Marks("~VulkanGfxBase", "enter")
        first == CHOOSE e \in runs : \A f \in runs : e <= f
        second == CHOOSE e \in runs : \A f \in runs : f <= e
    IN /\ Cardinality(runs) = 2
       /\ Cardinality(CallsNamed("device.destroy")) =
            IF calls[first].snap.device # Null THEN 1 ELSE 0
       /\ Cardinality(CallsNamed("instance.destroy")) =
            IF calls[first].snap.instance # Null THEN 1 ELSE 0
       /\ \A d \in CallsNamed("device.destroy") :
            /\ \A i \in NativeCalls("destroy") :
                 calls[i].call # "waitIdle" => i < d
            /\ \A i \in CallsNamed("instance.destroy") : d < i
       /\ \A i \in second..Len(calls) :
            IsMark(calls[i]) \/ calls[i].call = "waitIdle"

\* C39: every native object created through the driver connection is
\* released before the connection is destroyed at shutdown; the window
\* surface the platform callback created is destroyed before the instance.
C39_NothingOutlivesInstance ==
  (last.op = "shutdown" /\ CallsNamed("instance.destroy") # {}) =>
    /\ drv.live = {}
    /\ wl.surface # Null =>
         \E i \in 1..Len(calls) :
           /\ ~IsMark(calls[i])
           /\ calls[i].h = wl.surface
           /\ \A d \in CallsNamed("instance.destroy") : i < d

====
